---- MODULE Spec2Model ----
(***************************************************************************)
(* The integrated Quranic analysis system: the knowledge-graph store,       *)
(* KnowledgeNode and KnowledgeIntegrator                                    *)
(* (src/src/core/integration/knowledge_integrator.ts), and the concept      *)
(* explorer and pattern detector, SystematicExplorer and PatternDiscovery   *)
(* (src/src/core/explorer/systematic_explorer.ts), the text analysis,       *)
(* IntegratedQuranAnalysis (src/src/core/explorer/integrated_analysis.ts),  *)
(* and the ReasoningEngine (src/src/core/explorer/reasoning_engine.ts).     *)
(*                                                                          *)
(* Numbers.  The code computes with IEEE doubles.  Verification weights     *)
(* and edge confidences are held in hundredths (80 is 0.8); a node's        *)
(* confidence is held in units of 1/Scale and every division truncates.     *)
(* NaN is a value of its own: it arises from 0/0, it absorbs arithmetic     *)
(* and every comparison with it is false, as in JavaScript.                 *)
(*                                                                          *)
(* Ids.  uuidv4() is modelled as a fresh counter: the k-th node created     *)
(* gets id k.  Id 0 is never issued.                                        *)
(*                                                                          *)
(* A node's name, the timestamp and the details of a verification result    *)
(* take part in no decision of the code modelled here and are left out.     *)
(***************************************************************************)
EXTENDS Integers, Sequences, FiniteSets, TLC

VARIABLES
    node,      \* a standalone KnowledgeNode (new KnowledgeNode(...), as in the unit tests)
    nodes,     \* KnowledgeIntegrator.nodes: id -> KnowledgeNode
    sources,   \* KnowledgeIntegrator.sources
    written,   \* history: per stored node, target id -> the last edge written for it
    calls,     \* history: the number of calls made on the store
    last,      \* history: the last call, its arguments and what it returned
    conceptsData,  \* SystematicExplorer.conceptsData, in insertion order
    explorations,  \* SystematicExplorer.explorations: id -> ExplorationData
    running,       \* the exploreConcept call in flight: its id and arguments
    explored,      \* history: what the last finished exploreConcept call did
    detected,      \* history: the last detectPatterns call and what it returned
    analysed,      \* history: the last call on IntegratedQuranAnalysis and its outcome
    reasoned,      \* history: the last call on ReasoningEngine and its outcome
    inflight       \* the verifyKnowledgeNode calls that may overlap, in starting order

graphVars == <<node, nodes, sources, written, calls, last>>

explorerVars == <<conceptsData, explorations, running, explored>>

vars == <<node, nodes, sources, written, calls, last,
          conceptsData, explorations, running, explored, detected, analysed,
          reasoned, inflight>>

otherVars == <<analysed, reasoned, inflight>>

(***************************************************************************)
(* Bounds of the model                                                     *)
(***************************************************************************)
MaxHistory == 3      \* results appended to the standalone node
MaxNodes == 2        \* nodes created in the store
MaxCalls == 3        \* calls made on the store
MaxEdges == 9        \* edges of a node built outside the store
MaxEntities == 2      \* entities in a list given to discoverRelationships
MaxInFlight == 2      \* verifyKnowledgeNode calls that may overlap
MaxExplorations == 2 \* exploreConcept calls made

Scale == 10 ^ 6      \* one unit of confidence is 1/Scale

(***************************************************************************)
(* Numbers                                                                 *)
(***************************************************************************)
NaN == -1

IsNaN(x) == x = NaN

\* a / b for 0 <= a <= b given in the same unit; the quotient in 1/Scale.
\* b = 0 forces a = 0, and 0/0 is NaN
Divide(a, b) == IF b = 0 THEN NaN ELSE (a * Scale) \div b

\* JavaScript's >, <, >=, <= : false when either side is NaN
Gt(x, y) == ~IsNaN(x) /\ ~IsNaN(y) /\ x > y
Lt(x, y) == ~IsNaN(x) /\ ~IsNaN(y) /\ x < y
Ge(x, y) == ~IsNaN(x) /\ ~IsNaN(y) /\ x >= y
Le(x, y) == ~IsNaN(x) /\ ~IsNaN(y) /\ x <= y

Min(a, b) == IF a <= b THEN a ELSE b
Max(a, b) == IF a >= b THEN a ELSE b

\* xs.reduce((sum, x) => sum + x, 0)
RECURSIVE Sum(_)
Sum(xs) == IF xs = <<>> THEN 0 ELSE Head(xs) + Sum(Tail(xs))

(***************************************************************************)
(* KnowledgeNode                                                           *)
(***************************************************************************)
\* new KnowledgeNode(type, name, source, attributes)
KnowledgeNode(type, source, attributes) ==
    [type |-> type,
     source |-> source,
     confidence |-> Scale,
     attributes |-> attributes,
     relationships |-> <<>>,
     verificationResults |-> <<>>]

\* Map.prototype.has / get / set on the insertion-ordered relationships map,
\* held as a sequence of entries [key, type, confidence]
MapHas(m, k) == \E i \in 1..Len(m) : m[i].key = k

MapGet(m, k) == m[CHOOSE i \in 1..Len(m) : m[i].key = k]

MapSetAppending(m, k, type, confidence) ==
    Append(m, [key |-> k, type |-> type, confidence |-> confidence])

MapSet(m, k, type, confidence) ==
    IF MapHas(m, k)
    THEN [i \in 1..Len(m) |->
            IF m[i].key = k
            THEN [key |-> k, type |-> type, confidence |-> confidence]
            ELSE m[i]]
    ELSE Append(m, [key |-> k, type |-> type, confidence |-> confidence])

\* KnowledgeNode.addRelationship
addRelationship(n, targetNodeId, type, confidence) ==
    [n EXCEPT !.relationships = MapSet(@, targetNodeId, type, confidence)]

\* r.result ? r.confidence : -r.confidence
SignedWeight(r) == IF r.result THEN r.confidence ELSE 0 - r.confidence

\* (weightedSum + totalWeight) / (2 * totalWeight)
NormalizedConfidence(results) ==
    LET totalWeight == Sum([i \in 1..Len(results) |-> results[i].confidence])
        weightedSum == Sum([i \in 1..Len(results) |-> SignedWeight(results[i])])
    IN Divide(weightedSum + totalWeight, 2 * totalWeight)

\* 0.3 * confidence + 0.7 * normalizedConfidence
Dampen(confidence, normalizedConfidence) ==
    IF IsNaN(confidence) \/ IsNaN(normalizedConfidence) THEN NaN
    ELSE (3 * confidence + 7 * normalizedConfidence) \div 10

\* the dampening weights the other way round
UpdateConfidenceSwapped(n) ==
    IF Len(n.verificationResults) = 0 THEN n.confidence
    ELSE LET normalizedConfidence == NormalizedConfidence(n.verificationResults)
         IN IF IsNaN(n.confidence) \/ IsNaN(normalizedConfidence) THEN NaN
            ELSE (7 * n.confidence + 3 * normalizedConfidence) \div 10

\* KnowledgeNode._updateConfidence: the new value of confidence
UpdateConfidence(n) ==
    IF Len(n.verificationResults) = 0 THEN n.confidence
    ELSE Dampen(n.confidence, NormalizedConfidence(n.verificationResults))

\* KnowledgeNode.addVerificationResult
addVerificationResult(n, method, result, confidence) ==
    LET pushed == [n EXCEPT !.verificationResults =
                      Append(@, [method |-> method, result |-> result,
                                 confidence |-> confidence])]
    IN [pushed EXCEPT !.confidence = UpdateConfidence(pushed)]

\* getVerificationStatus with the score taken over the positive results only
getVerificationStatusMeanOfPositives(n) ==
    LET results == n.verificationResults
        positiveResults == SelectSeq(results, LAMBDA r : r.result)
        total == Sum([i \in 1..Len(positiveResults) |-> positiveResults[i].confidence])
    IN [isVerified |-> Len(positiveResults) > 0,
        score |-> IF Len(positiveResults) > 0
                  THEN (total * (Scale \div 100)) \div Len(positiveResults)
                  ELSE 0]

\* KnowledgeNode.getVerificationStatus: isVerified, and the score in 1/Scale
getVerificationStatus(n) ==
    LET results == n.verificationResults
        positiveResults == SelectSeq(results, LAMBDA r : r.result)
        total == Sum([i \in 1..Len(positiveResults) |-> positiveResults[i].confidence])
    IN [isVerified |-> Len(positiveResults) > 0,
        score |-> IF Len(results) > 0
                  THEN (total * (Scale \div 100)) \div Len(results)
                  ELSE 0]

(***************************************************************************)
(* KnowledgeIntegrator: the fixed tables and the three verification methods *)
(***************************************************************************)
\* names every object literal inherits from Object.prototype: table[name] is a
\* function or an object for them, which "||" takes for a hit
ObjectPrototypeKeys ==
    {"constructor", "toString", "valueOf", "hasOwnProperty", "isPrototypeOf",
     "propertyIsEnumerable", "toLocaleString", "__proto__"}

\* what an edge type holds when it is such an inherited value, not a string
InheritedValue(key) == "[inherited " \o key \o "]"

reverseMap ==
    [contains |-> "contained_in",
     contains_part |-> "part_of",
     causes |-> "caused_by",
     precedes |-> "follows",
     parent_of |-> "child_of",
     implies |-> "implied_by",
     supports |-> "supported_by",
     contradicts |-> "contradicted_by"]

\* the reverse type is the forward type
getReverseRelationshipTypeSame(type) == type

\* KnowledgeIntegrator.getReverseRelationshipType: reverseMap[type] || `${type}_by`
getReverseRelationshipType(type) ==
    IF type \in DOMAIN reverseMap THEN reverseMap[type]
    ELSE IF type \in ObjectPrototypeKeys THEN InheritedValue(type)
    ELSE type \o "_by"

reliabilityScores ==
    [quran |-> 100,
     hadith_sahih |-> 95,
     hadith_hasan |-> 80,
     tafsir_ibn_kathir |-> 90,
     tafsir_tabari |-> 85,
     linguistic_analysis |-> 75,
     inference |-> 60,
     user_input |-> 50]

\* KnowledgeIntegrator.getSourceReliability: reliabilityScores[source] || 0.5,
\* for a source that is no inherited name
getSourceReliability(source) ==
    IF source \in DOMAIN reliabilityScores THEN reliabilityScores[source] ELSE 50

\* whether checkAttributeConsistency throws: it reads attributes['definition'] of
\* a concept and attributes['time'] of an event, and a property may be an
\* accessor that throws
AttributeConsistencyThrows(n) ==
    \/ n.type = "concept" /\ n.attributes.definition = "throws"
    \/ n.type = "event" /\ n.attributes.time = "throws"

\* KnowledgeIntegrator.checkAttributeConsistency
checkAttributeConsistency(n) ==
    LET attributeCount == n.attributes.count
        score == Min(50 + attributeCount * 10, 100)
    IN IF n.type = "concept" /\ n.attributes.definition # "truthy"
       THEN (score * 8) \div 10
       ELSE IF n.type = "event" /\ n.attributes.time # "truthy"
       THEN (score * 8) \div 10
       ELSE score

\* KnowledgeIntegrator._checkContradictions
CheckContradictions(n) ==
    LET relationships == n.relationships
        hasSimilarTo == \E i \in 1..Len(relationships) : relationships[i].type = "similar_to"
        hasOppositeOf == \E i \in 1..Len(relationships) : relationships[i].type = "opposite_of"
    IN IF hasSimilarTo /\ hasOppositeOf THEN 20 ELSE 0

\* the score by count without its cap of 0.9
checkRelationshipCoherenceUncapped(n) ==
    IF Len(n.relationships) = 0 THEN 50
    ELSE LET relationshipCount == Len(n.relationships)
             scoreByCount == 50 + relationshipCount * 5
             contradictionPenalty == CheckContradictions(n)
         IN Max(10, scoreByCount - contradictionPenalty)

\* KnowledgeIntegrator.checkRelationshipCoherence
checkRelationshipCoherence(n) ==
    IF Len(n.relationships) = 0 THEN 50
    ELSE LET relationshipCount == Len(n.relationships)
             scoreByCount == Min(50 + relationshipCount * 5, 90)
             contradictionPenalty == CheckContradictions(n)
         IN Max(10, scoreByCount - contradictionPenalty)

\* the methods with the first two the other way round
verificationMethodsReordered ==
    <<"attribute_consistency", "source_reliability", "relationship_coherence">>

\* initializeVerificationMethods: the names, in order
verificationMethods ==
    <<"source_reliability", "attribute_consistency", "relationship_coherence">>

\* method.verify(node): what it returns, or that it throws
Verify(method, n) ==
    CASE method = "source_reliability" ->
           LET sourceReliability == getSourceReliability(n.source)
           IN [threw |-> FALSE, result |-> sourceReliability > 70,
               confidence |-> sourceReliability]
      [] method = "attribute_consistency" ->
           IF AttributeConsistencyThrows(n)
           THEN [threw |-> TRUE, result |-> FALSE, confidence |-> 0]
           ELSE LET consistencyScore == checkAttributeConsistency(n)
                IN [threw |-> FALSE, result |-> consistencyScore > 60,
                    confidence |-> consistencyScore]
      [] method = "relationship_coherence" ->
           LET coherenceScore == checkRelationshipCoherence(n)
           IN [threw |-> FALSE, result |-> coherenceScore > 50,
               confidence |-> coherenceScore]

\* one turn of the loop of verifyKnowledgeNode on the pair [node, results]
VerifyStep(acc, method) ==
    LET out == Verify(method, acc.node)
    IN IF out.threw THEN acc     \* caught and logged
       ELSE [node |-> addVerificationResult(acc.node, method, out.result, out.confidence),
             results |-> Append(acc.results,
                                [method |-> method, result |-> out.result,
                                 confidence |-> out.confidence])]

\* a loop that gives up at the first method that throws
RECURSIVE VerifyLoopAborting(_, _)
VerifyLoopAborting(acc, i) ==
    IF i > Len(verificationMethods) THEN acc
    ELSE IF Verify(verificationMethods[i], acc.node).threw THEN acc
    ELSE VerifyLoopAborting(VerifyStep(acc, verificationMethods[i]), i + 1)

\* the loop of verifyKnowledgeNode from method i on
RECURSIVE VerifyLoop(_, _)
VerifyLoop(acc, i) ==
    IF i > Len(verificationMethods) THEN acc
    ELSE VerifyLoop(VerifyStep(acc, verificationMethods[i]), i + 1)

(***************************************************************************)
(* SystematicExplorer                                                      *)
(*                                                                          *)
(* A name is the sequence of its letters, so that String.includes is the    *)
(* search for a contiguous run.  The letters are transliterated; as in the  *)
(* source, no letter occurs in two of the three initial names.  The ids of  *)
(* concepts and of explorations are fresh counters.  The attributes of a    *)
(* concept and the timestamp of an exploration are left out.                *)
(***************************************************************************)
taqwa == <<"t", "q", "w", "Y">>

iman == <<"I", "y", "m", "a", "n">>

sabr == <<"S", "b", "r">>

\* loadInitialConcepts
InitialConcepts ==
    <<[id |-> 1, name |-> taqwa, type |-> "value"],
      [id |-> 2, name |-> iman, type |-> "value"],
      [id |-> 3, name |-> sabr, type |-> "value"]>>

\* String.prototype.includes
Includes(name, part) ==
    \E k \in 0..(Len(name) - Len(part)) : SubSeq(name, k + 1, k + Len(part)) = part

\* the value of an option: absent, a number, or a Symbol, which no
\* comparison and no arithmetic accepts
Absent == [kind |-> "absent", value |-> 0]

Number(v) == [kind |-> "number", value |-> v]

ASymbol == [kind |-> "symbol", value |-> 0]

\* parameters.maxDepth as number || 2
MaxDepthOf(option) ==
    IF option.kind = "absent" \/ (option.kind = "number" /\ option.value = 0)
    THEN Number(2)
    ELSE option

\* SystematicExplorer.findRelatedConcepts
findRelatedConcepts(store, conceptId) ==
    LET others == SelectSeq(store, LAMBDA c : c.id # conceptId)
    IN SubSeq(others, 1, Min(3, Len(others)))

\* the state one exploreConcept call works on: the concept store, the visited
\* set and the results in the order they are pushed; as history, the number
\* of nested exploreRecursively calls now and at most, and the names looked up
Traversal(store) ==
    [store |-> store, visited |-> {}, results |-> <<>>,
     level |-> 0, deepest |-> 0, expanded |-> <<>>]

\* a lookup that leaves the visited set as it is
VisitUnrecorded(st, conceptName) ==
    [st EXCEPT !.expanded = Append(@, conceptName)]

\* visited.add(conceptName), before the lookup of the name
Visit(st, conceptName) ==
    [st EXCEPT !.visited = @ \cup {conceptName},
               !.expanded = Append(@, conceptName)]

\* a placeholder that is returned and not stored
MaterializeUnstored(st, conceptName) ==
    [st EXCEPT !.results = Append(@, [id |-> Len(st.store) + 1, name |-> conceptName,
                                      type |-> "unknown", references |-> <<>>])]

\* a placeholder that is stored twice
MaterializeTwice(st, conceptName) ==
    LET newConcept == [id |-> Len(st.store) + 1, name |-> conceptName,
                       type |-> "unknown"]
    IN [st EXCEPT !.store = Append(Append(@, newConcept),
                                   [newConcept EXCEPT !.id = @ + 1]),
                  !.results = Append(@, [id |-> newConcept.id, name |-> conceptName,
                                         type |-> "unknown", references |-> <<>>])]

\* the placeholder for a name that matches nothing: stored, and returned as
\* the only result of the call
Materialize(st, conceptName) ==
    LET newConcept == [id |-> Len(st.store) + 1, name |-> conceptName,
                       type |-> "unknown"]
    IN [st EXCEPT !.store = Append(@, newConcept),
                  !.results = Append(@, [id |-> newConcept.id, name |-> conceptName,
                                         type |-> "unknown", references |-> <<>>])]

RECURSIVE exploreRecursively(_, _, _)
RECURSIVE ExploreMatching(_, _, _, _)
RECURSIVE ExploreRelated(_, _, _, _)
RECURSIVE ExploreRelatedSameDepth(_, _, _, _)
RECURSIVE ExploreMatchingStoring(_, _, _, _)

\* the inner loop with the depth passed on as it is
ExploreRelatedSameDepth(st, relatedConcepts, k, depth) ==
    IF k > Len(relatedConcepts) THEN st
    ELSE LET relatedName == relatedConcepts[k].name
             after == IF relatedName \notin st.visited
                      THEN exploreRecursively(st, relatedName, depth)
                      ELSE st
         IN ExploreRelatedSameDepth(after, relatedConcepts, k + 1, depth)

\* the inner loop of exploreRecursively, from the k-th related concept on
ExploreRelated(st, relatedConcepts, k, depth) ==
    IF k > Len(relatedConcepts) THEN st
    ELSE LET relatedName == relatedConcepts[k].name
             after == IF relatedName \notin st.visited
                      THEN exploreRecursively(st, relatedName, depth - 1)
                      ELSE st
         IN ExploreRelated(after, relatedConcepts, k + 1, depth)

\* the outer loop that stores each concept it finds once more, under a new id
ExploreMatchingStoring(st, matchingConcepts, i, depth) ==
    IF i > Len(matchingConcepts) THEN st
    ELSE LET concept == matchingConcepts[i]
             relatedConcepts == findRelatedConcepts(st.store, concept.id)
             pushed == [st EXCEPT !.results =
                          Append(@, [id |-> concept.id, name |-> concept.name,
                                     type |-> concept.type,
                                     references |-> [k \in 1..Len(relatedConcepts) |->
                                                       relatedConcepts[k].id]]),
                                  !.store = Append(@, [concept EXCEPT !.id = Len(st.store) + 1])]
         IN ExploreMatchingStoring(pushed, matchingConcepts, i + 1, depth)

\* the outer loop of exploreRecursively, from the i-th matching concept on
ExploreMatching(st, matchingConcepts, i, depth) ==
    IF i > Len(matchingConcepts) THEN st
    ELSE LET concept == matchingConcepts[i]
             relatedConcepts == findRelatedConcepts(st.store, concept.id)
             pushed == [st EXCEPT !.results =
                          Append(@, [id |-> concept.id, name |-> concept.name,
                                     type |-> concept.type,
                                     references |-> [k \in 1..Len(relatedConcepts) |->
                                                       relatedConcepts[k].id]])]
             after == IF depth > 1
                      THEN ExploreRelated(pushed, relatedConcepts, 1, depth)
                      ELSE pushed
         IN ExploreMatching(after, matchingConcepts, i + 1, depth)

\* SystematicExplorer.exploreRecursively for a numeric depth
exploreRecursively(st, conceptName, depth) ==
    LET entered == [st EXCEPT !.level = @ + 1, !.deepest = Max(@, st.level + 1)]
        seen == Visit(entered, conceptName)
        matchingConcepts ==
            SelectSeq(seen.store,
                      LAMBDA c : c.name = conceptName \/ Includes(c.name, conceptName))
        done == IF depth <= 0 \/ conceptName \in entered.visited THEN entered
                ELSE IF Len(matchingConcepts) = 0 THEN Materialize(seen, conceptName)
                ELSE ExploreMatching(seen, matchingConcepts, 1, depth)
    IN [done EXCEPT !.level = st.level]

\* the try block of exploreConcept: whether exploreRecursively throws, and the
\* traversal when it does not.  depth <= 0 throws a TypeError for a Symbol
Explore(store, concept, maxDepth) ==
    IF maxDepth.kind = "symbol"
    THEN [threw |-> TRUE, traversal |-> Traversal(store)]
    ELSE [threw |-> FALSE,
          traversal |-> exploreRecursively(Traversal(store), concept, maxDepth.value)]

NoExploration == [id |-> 0, concept |-> <<>>, option |-> Absent, maxDepth |-> Absent]

NoExplored ==
    [id |-> 0, concept |-> <<>>, option |-> Absent, maxDepth |-> Absent,
     threw |-> FALSE, before |-> <<>>, results |-> <<>>, deepest |-> 0,
     expanded |-> <<>>,
     previous |-> [id |-> 0, concept |-> <<>>, option |-> Absent, threw |-> FALSE,
                   before |-> <<>>, results |-> <<>>]]

\* a call that ends and leaves its record pending
CompletedStillPending(exploration, results) ==
    [exploration EXCEPT !.results = results]

\* exploration.results = results; exploration.status = 'completed'
Completed(exploration, results) ==
    [exploration EXCEPT !.results = results, !.status = "completed"]

\* exploration.status = 'failed'
Failed(exploration) == [exploration EXCEPT !.status = "failed"]

Null == [id |-> 0]

(***************************************************************************)
(* PatternDiscovery                                                        *)
(*                                                                          *)
(* A text is given by what the regular expressions find in it: for each     *)
(* linguistic pattern the lengths of its matches in order, the number of    *)
(* question-answer matches, and for each theme the positions at which it    *)
(* occurs.  Confidences are in ten-thousandths, and a sum that IEEE         *)
(* arithmetic leaves just below a ten-thousandth is one unit below it.  The *)
(* id, text, position and metadata of a pattern are left out.               *)
(***************************************************************************)
\* the types of this.linguisticPatterns, in order
linguisticPatterns == <<"conditional_sequence", "exclusivity", "address", "repetition">>

themes == <<"hidaya", "rahma", "adhab", "tawhid", "iman", "kufr">>

\* x + y in IEEE doubles: 0.7 + 0.1 is 0.7999999999999999, and adding 0.15 to
\* that gives 0.95
FloatAdd(x, y) ==
    IF x = 7000 /\ y = 1000 THEN 7999
    ELSE IF x = 7999 /\ y = 1500 THEN 9500
    ELSE x + y

\* PatternDiscovery.calculatePatternConfidence, for a text of this length
calculatePatternConfidence(length, type) ==
    LET base == 7000
        byLength == IF length > 20 THEN FloatAdd(base, 1000) ELSE base
        byType == IF type = "conditional_sequence" THEN FloatAdd(byLength, 1000)
                  ELSE IF type = "exclusivity" THEN FloatAdd(byLength, 1500)
                  ELSE byLength
    IN Min(byType, 10000)

\* PatternDiscovery.calculateAverageDistance, in hundredths
calculateAverageDistance(positions) ==
    IF Len(positions) <= 1 THEN 0
    ELSE LET totalDistance == Sum([i \in 1..(Len(positions) - 1) |->
                                    positions[i + 1] - positions[i]])
         IN (totalDistance * 100) \div (Len(positions) - 1)

\* the patterns detectLinguisticPatterns pushes for the pattern of one type
MatchesOfType(text, type, minConfidence) ==
    LET found == [i \in 1..Len(text.matches[type]) |->
                    [type |-> type, length |-> text.matches[type][i],
                     confidence |-> calculatePatternConfidence(text.matches[type][i], type)]]
    IN SelectSeq(found, LAMBDA p : p.confidence >= minConfidence)

\* PatternDiscovery.detectLinguisticPatterns, from the i-th pattern on
RECURSIVE detectLinguisticPatterns(_, _, _)
detectLinguisticPatterns(text, minConfidence, i) ==
    IF i > Len(linguisticPatterns) THEN <<>>
    ELSE MatchesOfType(text, linguisticPatterns[i], minConfidence)
         \o detectLinguisticPatterns(text, minConfidence, i + 1)

\* the theme repetitions of detectSemanticPatterns, from the i-th theme on
RECURSIVE ThemeRepetitions(_, _)
ThemeRepetitions(text, i) ==
    IF i > Len(themes) THEN <<>>
    ELSE LET positions == text.themes[themes[i]]
             averageDistance == calculateAverageDistance(positions)
         IN (IF Len(positions) >= 3 /\ averageDistance < 100 * 100
             THEN <<[type |-> "theme_repetition", length |-> 0,
                     confidence |-> 7500 + 500 * Len(positions)]>>
             ELSE <<>>)
            \o ThemeRepetitions(text, i + 1)

\* PatternDiscovery.detectSemanticPatterns
detectSemanticPatterns(text, minConfidence) ==
    [i \in 1..text.questions |->
        [type |-> "question_answer", length |-> 0, confidence |-> 8500]]
    \o ThemeRepetitions(text, 1)

\* a default of 0.9 for minConfidence
MinConfidenceOfHighDefault(option) ==
    IF option.kind = "absent" \/ (option.kind = "number" /\ option.value = 0)
    THEN 9000
    ELSE option.value

\* (parameters.minConfidence as number) || 0.7
MinConfidenceOf(option) ==
    IF option.kind = "absent" \/ (option.kind = "number" /\ option.value = 0)
    THEN 7000
    ELSE option.value

\* PatternDiscovery.detectPatterns
detectPatterns(text, option, includeSemanticPatterns) ==
    LET minConfidence == MinConfidenceOf(option)
    IN detectLinguisticPatterns(text, minConfidence, 1)
       \o IF includeSemanticPatterns
          THEN detectSemanticPatterns(text, minConfidence)
          ELSE <<>>

\* the positions of a theme that occurs k times, one occurrence every gap
\* characters
Every(gap, k) == [i \in 1..k |-> (i - 1) * gap]

NoText ==
    [matches |-> [type \in {linguisticPatterns[i] : i \in 1..Len(linguisticPatterns)} |-> <<>>],
     questions |-> 0,
     themes |-> [theme \in {themes[i] : i \in 1..Len(themes)} |-> <<>>]]

NoDetection ==
    [called |-> FALSE, text |-> NoText, minConfidence |-> Absent,
     includeSemanticPatterns |-> FALSE, patterns |-> <<>>]

\* SystematicExplorer.getExplorationById
getExplorationById(id) ==
    IF id \in 1..Len(explorations) THEN explorations[id] ELSE Null

(***************************************************************************)
(* The inputs the calls are made with                                      *)
(***************************************************************************)
Bools == {TRUE, FALSE}

\* weights handed to addVerificationResult, in hundredths
Weights == {0, 50, 60, 80, 90, 100}

\* ids handed to createRelationship and verifyKnowledgeNode: those issued so
\* far, and 0, which is in no store
Ids == 0..Len(nodes)

\* (type, source, attributes) of the nodes created.  attributes: the number of
\* keys, and whether 'definition' and 'time' are absent, truthy, or an accessor
\* that throws when read
NodeKinds ==
    { [type |-> "concept", source |-> "quran",
       attributes |-> [count |-> 1, definition |-> "truthy", time |-> "absent"]],
      [type |-> "concept", source |-> "user_input",
       attributes |-> [count |-> 1, definition |-> "throws", time |-> "absent"]],
      [type |-> "attribute", source |-> "hadith_sahih",
       attributes |-> [count |-> 2, definition |-> "absent", time |-> "absent"]] }

RelationshipTypes == {"implies", "similar_to", "constructor"}

EdgeConfidences == {80, 100}

\* k copies of x
Repeat(x, k) == [i \in 1..k |-> x]

\* n after node.addRelationship(target, type, 1.0) for each of the types, each
\* with a target of its own
RECURSIVE Linked(_, _)
Linked(n, types) ==
    IF types = <<>> THEN n
    ELSE Linked(addRelationship(n, Len(n.relationships) + 1, Head(types), 100),
                Tail(types))

\* nodes built outside the store by new KnowledgeNode and addRelationship: a
\* similar_to edges, b opposite_of edges and c edges of another type
BuiltNodes ==
    { Linked(KnowledgeNode("concept", "quran",
                           [count |-> 2, definition |-> "truthy", time |-> "absent"]),
             Repeat("similar_to", a) \o Repeat("opposite_of", b) \o Repeat("implies", c)) :
        a \in 0..MaxEdges, b \in 0..MaxEdges, c \in 0..MaxEdges }

\* the names asked for: a stored name, a part of it, the empty name, which
\* every name contains, and two names that are in no initial name
ConceptNames == {taqwa, <<"q">>, <<>>, <<"x">>, <<"x", "q">>}

\* parameters.maxDepth
MaxDepths == {Absent, Number(-1), Number(0), Number(1), Number(2), Number(3), ASymbol}

\* the texts analysed: what is matched in them
Texts ==
    { [matches |-> [conditional_sequence |-> c, exclusivity |-> e,
                    address |-> a, repetition |-> r],
       questions |-> q,
       themes |-> [NoText.themes EXCEPT !["rahma"] = t]] :
        c \in {<<>>, <<15>>, <<30>>}, e \in {<<>>, <<30>>},
        a \in {<<>>, <<12>>, <<12, 30>>}, r \in {<<>>, <<7>>},
        q \in {0, 1},
        t \in {<<>>, Every(10, 3), Every(10, 6), Every(200, 3)} }

\* the numbers passed as minConfidence, in ten-thousandths
Thresholds == {-5000, 0, 5000, 7000, 8000, 9000, 9900}

\* parameters.minConfidence
MinConfidences == {Absent} \cup {Number(v) : v \in Thresholds}

NoCall ==
    [op |-> "none", id |-> 0, target |-> 0, type |-> "", confidence |-> 0,
     bidirectional |-> FALSE, verify |-> FALSE, ret |-> FALSE, threw |-> FALSE,
     results |-> <<>>]

(***************************************************************************)
(* KnowledgeIntegrator: the operations                                     *)
(***************************************************************************)
Known(id) == id \in 1..Len(nodes)

\* verifyKnowledgeNode that answers an unknown id with an empty list
verifyKnowledgeNodeLenient(store, nodeId) ==
    IF ~(nodeId \in 1..Len(store))
    THEN [threw |-> FALSE, nodes |-> store, results |-> <<>>]
    ELSE LET pass == VerifyLoop([node |-> store[nodeId], results |-> <<>>], 1)
         IN [threw |-> FALSE,
             nodes |-> [store EXCEPT ![nodeId] = pass.node],
             results |-> pass.results]

\* KnowledgeIntegrator.verifyKnowledgeNode: whether it throws, the store after it
\* and the list it returns
verifyKnowledgeNode(store, nodeId) ==
    IF ~(nodeId \in 1..Len(store))
    THEN [threw |-> TRUE, nodes |-> store, results |-> <<>>]
    ELSE LET pass == VerifyLoop([node |-> store[nodeId], results |-> <<>>], 1)
         IN [threw |-> FALSE,
             nodes |-> [store EXCEPT ![nodeId] = pass.node],
             results |-> pass.results]

\* KnowledgeIntegrator.addKnowledgeNode: the store after it
addKnowledgeNode(store, n, verify) ==
    LET added == Append(store, n)
    IN IF verify THEN verifyKnowledgeNode(added, Len(added)).nodes ELSE added

\* createRelationship that stores the default confidence 1.0 on the forward edge
createRelationshipDefaultConfidence(store, sourceNodeId, targetNodeId, type, confidence, bidirectional) ==
    IF ~(sourceNodeId \in 1..Len(store)) \/ ~(targetNodeId \in 1..Len(store))
    THEN [ret |-> FALSE, nodes |-> store]
    ELSE LET forward == [store EXCEPT ![sourceNodeId] =
                            addRelationship(@, targetNodeId, type, 100)]
         IN [ret |-> TRUE,
             nodes |-> IF bidirectional
                       THEN [forward EXCEPT ![targetNodeId] =
                               addRelationship(@, sourceNodeId,
                                               getReverseRelationshipType(type), confidence)]
                       ELSE forward]

\* createRelationship that asks only for the source node
createRelationshipSourceOnly(store, sourceNodeId, targetNodeId, type, confidence, bidirectional) ==
    IF ~(sourceNodeId \in 1..Len(store))
    THEN [ret |-> FALSE, nodes |-> store]
    ELSE LET forward == [store EXCEPT ![sourceNodeId] =
                            addRelationship(@, targetNodeId, type, confidence)]
         IN [ret |-> TRUE,
             nodes |-> IF bidirectional /\ targetNodeId \in 1..Len(store)
                       THEN [forward EXCEPT ![targetNodeId] =
                               addRelationship(@, sourceNodeId,
                                               getReverseRelationshipType(type), confidence)]
                       ELSE forward]

\* KnowledgeIntegrator.createRelationship: what it returns and the store after it
createRelationship(store, sourceNodeId, targetNodeId, type, confidence, bidirectional) ==
    IF ~(sourceNodeId \in 1..Len(store)) \/ ~(targetNodeId \in 1..Len(store))
    THEN [ret |-> FALSE, nodes |-> store]
    ELSE LET forward == [store EXCEPT ![sourceNodeId] =
                            addRelationship(@, targetNodeId, type, confidence)]
         IN [ret |-> TRUE,
             nodes |-> IF bidirectional
                       THEN [forward EXCEPT ![targetNodeId] =
                               addRelationship(@, sourceNodeId,
                                               getReverseRelationshipType(type), confidence)]
                       ELSE forward]

\* the nodes that getStatistics counts as verified
VerifiedNodes(store) ==
    {id \in 1..Len(store) :
        LET status == getVerificationStatus(store[id])
        IN status.isVerified /\ status.score > (7 * Scale) \div 10}

\* the edges of these nodes of the store: <<id, k>> is the k-th entry of the
\* relationships map of node id
EdgesOf(store, ids) ==
    {e \in ids \X (0..MaxEdges) : e[2] \in 1..Len(store[e[1]].relationships)}

\* the relationshipTypes map of getStatistics over these nodes, as the object
\* made of its entries: each type found, and how many edges have it
TypeCounts(store, ids) ==
    LET edges == EdgesOf(store, ids)
    IN [type \in {store[e[1]].relationships[e[2]].type : e \in edges} |->
          Cardinality({e \in edges : store[e[1]].relationships[e[2]].type = type})]

\* getStatistics that counts the relationship types of the first node only
getStatisticsFirstNodeOnly(store, sourceSet) ==
    [nodeCount |-> Len(store),
     sourceCount |-> Cardinality(sourceSet),
     verifiedNodeCount |-> Cardinality(VerifiedNodes(store)),
     relationshipTypeCounts |-> TypeCounts(store, (1..Len(store)) \cap {1})]

\* KnowledgeIntegrator.getStatistics: the counts and relationshipTypeCounts
getStatistics(store, sourceSet) ==
    [nodeCount |-> Len(store),
     sourceCount |-> Cardinality(sourceSet),
     verifiedNodeCount |-> Cardinality(VerifiedNodes(store)),
     relationshipTypeCounts |-> TypeCounts(store, 1..Len(store))]

\* the edges a call writes, in the order it writes them
WritesOf(s, t, type, confidence, bidirectional) ==
    <<[from |-> s, to |-> t, type |-> type, confidence |-> confidence]>>
    \o IF bidirectional
       THEN <<[from |-> t, to |-> s, type |-> getReverseRelationshipType(type),
               confidence |-> confidence]>>
       ELSE <<>>

\* the history of writes after the writes of one call
RECURSIVE Record(_, _)
Record(w, writes) ==
    IF writes = <<>> THEN w
    ELSE LET e == Head(writes)
             old == w[e.from]
             new == [k \in DOMAIN old \cup {e.to} |->
                        IF k = e.to
                        THEN [type |-> e.type, confidence |-> e.confidence,
                              writes |-> IF k \in DOMAIN old THEN old[k].writes + 1 ELSE 1]
                        ELSE old[k]]
         IN Record([w EXCEPT ![e.from] = new], Tail(writes))

\* createKnowledgeNode(type, name, source, attributes, verify), addKnowledgeNode included
CreateKnowledgeNode(kind, verify) ==
    /\ Len(nodes) < MaxNodes
    /\ calls < MaxCalls
    /\ calls' = calls + 1
    /\ LET id == Len(nodes) + 1
           fresh == KnowledgeNode(kind.type, kind.source, kind.attributes)
       IN /\ nodes' = addKnowledgeNode(nodes, fresh, verify)
          /\ sources' = sources \cup {kind.source}
          /\ written' = Append(written, <<>>)
          /\ last' = [NoCall EXCEPT !.op = "createKnowledgeNode", !.id = id,
                         !.verify = verify, !.ret = TRUE]
    /\ UNCHANGED node
    /\ UNCHANGED <<explorerVars, detected, otherVars>>

CreateRelationship(s, t, type, confidence, bidirectional) ==
    /\ calls < MaxCalls
    /\ calls' = calls + 1
    /\ LET out == createRelationship(nodes, s, t, type, confidence, bidirectional)
       IN /\ nodes' = out.nodes
          /\ written' = IF out.ret
                        THEN Record(written, WritesOf(s, t, type, confidence, bidirectional))
                        ELSE written
          /\ last' = [NoCall EXCEPT !.op = "createRelationship", !.id = s, !.target = t,
                         !.type = type, !.confidence = confidence,
                         !.bidirectional = bidirectional, !.ret = out.ret]
    /\ UNCHANGED <<node, sources>>
    /\ UNCHANGED <<explorerVars, detected, otherVars>>

\* verifyKnowledgeNode(nodeId), awaited before the next call is made
VerifyKnowledgeNode(id) ==
    /\ calls < MaxCalls
    /\ calls' = calls + 1
    /\ LET out == verifyKnowledgeNode(nodes, id)
       IN /\ nodes' = out.nodes
          /\ last' = [NoCall EXCEPT !.op = "verifyKnowledgeNode", !.id = id,
                         !.threw = out.threw, !.ret = ~out.threw,
                         !.results = out.results]
    /\ UNCHANGED <<node, sources, written>>
    /\ UNCHANGED <<explorerVars, detected, otherVars>>

\* node.addVerificationResult(method, result, confidence) on the standalone node
AddVerificationResult(result, confidence) ==
    /\ Len(node.verificationResults) < MaxHistory
    /\ node' = addVerificationResult(node, "test_method", result, confidence)
    /\ last' = [NoCall EXCEPT !.op = "addVerificationResult", !.ret = result,
                   !.confidence = confidence]
    /\ UNCHANGED <<nodes, sources, written, calls>>
    /\ UNCHANGED <<explorerVars, detected, otherVars>>

\* addKnowledgeNode(node, verify) with the node built outside the store, which
\* gets id 1.  Adding it again sets the same key to the same object, whose
\* state is nodes[1]; the variable node keeps the node as it was built
AddKnowledgeNode(verify) ==
    /\ Len(nodes) <= 1
    /\ calls < MaxCalls
    /\ calls' = calls + 1
    /\ nodes' = IF nodes = <<>> THEN addKnowledgeNode(nodes, node, verify)
                ELSE IF verify THEN verifyKnowledgeNode(nodes, 1).nodes
                ELSE nodes
    /\ sources' = sources \cup {node.source}
    /\ last' = [NoCall EXCEPT !.op = "addKnowledgeNode", !.id = 1,
                   !.verify = verify, !.ret = TRUE]
    /\ UNCHANGED <<node, written>>
    /\ UNCHANGED <<explorerVars, detected, otherVars>>

(***************************************************************************)
(* IntegratedQuranAnalysis (src/src/core/explorer/integrated_analysis.ts)  *)
(*                                                                         *)
(* An entity is its id, type, name, the entries of its attributes object   *)
(* in insertion order and its references, each a position [start, end].    *)
(* The k-th entity of a list has id k (uuidv4).  The confidence of a       *)
(* relationship is held in ten-thousandths, and so is a similarity score:  *)
(* 2/3 is 6666 and 0.6 * 2/3 is 3999, below 0.4 as the double              *)
(* 0.39999999999999997 is.                                                 *)
(***************************************************************************)
Abs(x) == IF x < 0 THEN -x ELSE x

\* the least number of a non-empty set
Least(S) == CHOOSE x \in S : \A y \in S : x <= y

\* entity.attributes[key]
AttributeOf(entity, key) ==
    LET entries == SelectSeq(entity.attributes, LAMBDA entry : entry.key = key)
    IN IF Len(entries) = 0 THEN "undefined" ELSE entries[1].value

\* the entityTerms table of extractEntities, with the length of each term
entityTerms ==
    << [term |-> "allah", length |-> 4, type |-> "concept",
        attributes |-> <<[key |-> "category", value |-> "divine"]>>],
       [term |-> "rahman", length |-> 6, type |-> "concept",
        attributes |-> <<[key |-> "category", value |-> "name_of_allah"]>>],
       [term |-> "rahim", length |-> 6, type |-> "concept",
        attributes |-> <<[key |-> "category", value |-> "name_of_allah"]>>],
       [term |-> "muminun", length |-> 8, type |-> "person",
        attributes |-> <<[key |-> "category", value |-> "group"],
                         [key |-> "faith", value |-> "iman"]>>],
       [term |-> "muttaqun", length |-> 7, type |-> "person",
        attributes |-> <<[key |-> "category", value |-> "group"],
                         [key |-> "attribute", value |-> "taqwa"]>>],
       [term |-> "kafirun", length |-> 8, type |-> "person",
        attributes |-> <<[key |-> "category", value |-> "group"],
                         [key |-> "faith", value |-> "kufr"]>>],
       [term |-> "janna", length |-> 5, type |-> "place",
        attributes |-> <<[key |-> "category", value |-> "hereafter"],
                         [key |-> "function", value |-> "reward"]>>],
       [term |-> "nar", length |-> 5, type |-> "place",
        attributes |-> <<[key |-> "category", value |-> "hereafter"],
                         [key |-> "function", value |-> "punishment"]>>],
       [term |-> "salat", length |-> 6, type |-> "concept",
        attributes |-> <<[key |-> "category", value |-> "worship"]>>],
       [term |-> "zakat", length |-> 6, type |-> "concept",
        attributes |-> <<[key |-> "category", value |-> "worship"]>>],
       [term |-> "siyam", length |-> 6, type |-> "concept",
        attributes |-> <<[key |-> "category", value |-> "worship"]>>],
       [term |-> "hajj", length |-> 4, type |-> "concept",
        attributes |-> <<[key |-> "category", value |-> "worship"]>>],
       [term |-> "taqwa", length |-> 6, type |-> "attribute",
        attributes |-> <<[key |-> "category", value |-> "value"]>>],
       [term |-> "iman", length |-> 7, type |-> "attribute",
        attributes |-> <<[key |-> "category", value |-> "value"]>>],
       [term |-> "sabr", length |-> 5, type |-> "attribute",
        attributes |-> <<[key |-> "category", value |-> "value"]>>],
       [term |-> "qiyama", length |-> 7, type |-> "event",
        attributes |-> <<[key |-> "category", value |-> "hereafter"]>>] >>

\* IntegratedQuranAnalysis.extractEntities: text.terms[k] lists where the k-th
\* term of the table is matched in the text
extractEntities(text) ==
    LET found == SelectSeq([k \in 1..Len(entityTerms) |-> k],
                           LAMBDA k : Len(text.terms[k]) > 0)
    IN [n \in 1..Len(found) |->
          LET details == entityTerms[found[n]]
              matches == text.terms[found[n]]
          IN [id |-> n, type |-> details.type, name |-> details.term,
              attributes |-> details.attributes,
              references |-> [m \in 1..Len(matches) |->
                                [start |-> matches[m],
                                 end |-> matches[m] + details.length]]]]

\* IntegratedQuranAnalysis.calculateProximity, in ten-thousandths
calculateProximity(entityA, entityB) ==
    IF Len(entityA.references) = 0 \/ Len(entityB.references) = 0 THEN 0
    ELSE LET minDistance ==
                Least({ Min(Abs(entityA.references[a].end - entityB.references[b].start),
                            Abs(entityB.references[b].end - entityA.references[a].start)) :
                        a \in 1..Len(entityA.references),
                        b \in 1..Len(entityB.references) })
         IN Max(0, 10000 - minDistance * 100)

\* IntegratedQuranAnalysis.checkAttributeApplicability
checkAttributeApplicability(entity, attribute) ==
    \/ entity.type = "person" /\ AttributeOf(attribute, "category") = "value"
    \/ /\ entity.type = "concept"
       /\ AttributeOf(entity, "category") = AttributeOf(attribute, "category")

\* the matchCount of calculateSemanticSimilarity
MatchCount(entityA, entityB) ==
    Cardinality({ p \in (1..Len(entityA.attributes)) \X (1..Len(entityB.attributes)) :
                    /\ entityA.attributes[p[1]].key = entityB.attributes[p[2]].key
                    /\ entityA.attributes[p[1]].value = entityB.attributes[p[2]].value })

\* calculateSemanticSimilarity whose score is 1 as soon as one attribute matches
calculateSemanticSimilarityAnyMatch(entityA, entityB) ==
    IF MatchCount(entityA, entityB) > 0 THEN 10000 ELSE 0

\* IntegratedQuranAnalysis.calculateSemanticSimilarity, in ten-thousandths
calculateSemanticSimilarity(entityA, entityB) ==
    IF Len(entityA.attributes) > 0 /\ Len(entityB.attributes) > 0
    THEN (MatchCount(entityA, entityB) * 10000)
            \div Min(Len(entityA.attributes), Len(entityB.attributes))
    ELSE 0

\* the semanticRules table of discoverRelationships
semanticRules ==
    << [sourceType |-> "person", targetType |-> "place",
        relationshipType |-> "located_in", confidenceScore |-> 6000],
       [sourceType |-> "person", targetType |-> "event",
        relationshipType |-> "participates_in", confidenceScore |-> 7000],
       [sourceType |-> "concept", targetType |-> "concept",
        relationshipType |-> "related_to", confidenceScore |-> 5000],
       [sourceType |-> "event", targetType |-> "place",
        relationshipType |-> "occurs_in", confidenceScore |-> 7000] >>

\* rule.confidenceScore * semanticScore
ScoreTimes(confidenceScore, semanticScore) == (confidenceScore * semanticScore) \div 10000

\* the pairs of entities in the order two nested loops over the list visit them
Pairs(entities) ==
    [k \in 1..(Len(entities) * Len(entities)) |->
        [a |-> entities[((k - 1) \div Len(entities)) + 1],
         b |-> entities[((k - 1) % Len(entities)) + 1]]]

Relationship(type, source, target, confidence, evidence) ==
    [type |-> type, sourceEntityId |-> source.id, targetEntityId |-> target.id,
     confidence |-> confidence, evidence |-> evidence]

\* pass 1 of discoverRelationships: entities that occur close to each other
CoOccurrences(entities) ==
    LET close == SelectSeq(Pairs(entities),
                           LAMBDA p : p.a.id < p.b.id /\ calculateProximity(p.a, p.b) > 6000)
    IN [k \in 1..Len(close) |->
          Relationship("co_occurs_with", close[k].a, close[k].b,
                       calculateProximity(close[k].a, close[k].b), "proximity_analysis")]

\* pass 2 of discoverRelationships: attributes that apply to a person or concept
AttributeRelationships(entities) ==
    LET applies == SelectSeq(Pairs(entities),
                             LAMBDA p : /\ p.a.type \in {"person", "concept"}
                                        /\ p.b.type = "attribute"
                                        /\ checkAttributeApplicability(p.a, p.b))
    IN [k \in 1..Len(applies) |->
          Relationship("has_attribute", applies[k].a, applies[k].b, 7500,
                       "attribute_analysis")]

\* pass 3 of discoverRelationships for one rule
RuleRelationships(entities, rule) ==
    LET basis == SelectSeq(Pairs(entities),
                           LAMBDA p : /\ p.a.type = rule.sourceType
                                      /\ p.b.type = rule.targetType
                                      /\ p.a.id # p.b.id
                                      /\ calculateSemanticSimilarity(p.a, p.b) > 5000)
    IN [k \in 1..Len(basis) |->
          Relationship(rule.relationshipType, basis[k].a, basis[k].b,
                       ScoreTimes(rule.confidenceScore,
                                  calculateSemanticSimilarity(basis[k].a, basis[k].b)),
                       "semantic_analysis")]

\* pass 3 of discoverRelationships, from the i-th rule on
RECURSIVE SemanticRelationships(_, _)
SemanticRelationships(entities, i) ==
    IF i > Len(semanticRules) THEN <<>>
    ELSE RuleRelationships(entities, semanticRules[i])
         \o SemanticRelationships(entities, i + 1)

\* the relationships discoverRelationships has pushed when it reaches its filter
Candidates(entities) ==
    CoOccurrences(entities) \o AttributeRelationships(entities)
        \o SemanticRelationships(entities, 1)

\* IntegratedQuranAnalysis.discoverRelationships: whether it throws and what it
\* returns.  A minConfidence that is a Symbol is kept by ||, and comparing a
\* number with it throws a TypeError
discoverRelationships(entities, option) ==
    LET relationships == Candidates(entities)
        minConfidence == IF option.kind = "absent"
                               \/ (option.kind = "number" /\ option.value = 0)
                         THEN 7000 ELSE option.value
    IN IF option.kind = "symbol"
       THEN [threw |-> Len(relationships) > 0, relationships |-> <<>>]
       ELSE [threw |-> FALSE,
             relationships |->
                SelectSeq(relationships,
                          LAMBDA rel : rel.confidence >= minConfidence)]

\* the parameters of analyzeText: left out, an object or null
NoParameters ==
    [kind |-> "absent", minConfidence |-> Absent, includeSemanticPatterns |-> FALSE]

Parameters(minConfidence, includeSemanticPatterns) ==
    [kind |-> "object", minConfidence |-> minConfidence,
     includeSemanticPatterns |-> includeSemanticPatterns]

NullParameters ==
    [kind |-> "null", minConfidence |-> Absent, includeSemanticPatterns |-> FALSE]

\* whether patternDiscovery.detectPatterns(text, parameters) throws: reading a
\* property of null does, and so does comparing the confidence of a match
\* with a minConfidence that is a Symbol
DetectPatternsThrows(text, parameters) ==
    \/ parameters.kind = "null"
    \/ /\ parameters.minConfidence.kind = "symbol"
       /\ \E i \in 1..Len(linguisticPatterns) :
              Len(text.matches[linguisticPatterns[i]]) > 0

NoResult == [text |-> <<>>, entities |-> <<>>, relationships |-> <<>>, patterns |-> <<>>]

\* analyzeText that returns what it has when relationship discovery fails
analyzeTextPartial(text, parameters) ==
    LET entities == extractEntities(text)
        discovery == discoverRelationships(entities, parameters.minConfidence)
    IN IF DetectPatternsThrows(text.patterns, parameters)
       THEN [threw |-> TRUE, message |-> <<"Analysis failed: ", "TypeError">>,
             steps |-> <<"detectPatterns">>, result |-> NoResult]
       ELSE [threw |-> FALSE, message |-> <<>>,
             steps |-> <<"detectPatterns", "extractEntities", "discoverRelationships">>,
             result |-> [text |-> text, entities |-> entities,
                         relationships |-> discovery.relationships,
                         patterns |-> detectPatterns(text.patterns,
                                                     parameters.minConfidence,
                                                     parameters.includeSemanticPatterns)]]

\* IntegratedQuranAnalysis.analyzeText: the steps it runs, whether it throws and
\* with what message, and the result it returns.  A text is what the pattern
\* regexes match in it (text.patterns) and where the entity terms occur in it
\* (text.terms)
analyzeText(text, parameters) ==
    LET entities == extractEntities(text)
        discovery == discoverRelationships(entities, parameters.minConfidence)
    IN IF DetectPatternsThrows(text.patterns, parameters)
       THEN [threw |-> TRUE, message |-> <<"Analysis failed: ", "TypeError">>,
             steps |-> <<"detectPatterns">>, result |-> NoResult]
       ELSE IF discovery.threw
       THEN [threw |-> TRUE, message |-> <<"Analysis failed: ", "TypeError">>,
             steps |-> <<"detectPatterns", "extractEntities", "discoverRelationships">>,
             result |-> NoResult]
       ELSE [threw |-> FALSE, message |-> <<>>,
             steps |-> <<"detectPatterns", "extractEntities", "discoverRelationships">>,
             result |-> [text |-> text, entities |-> entities,
                         relationships |-> discovery.relationships,
                         patterns |-> detectPatterns(text.patterns,
                                                     parameters.minConfidence,
                                                     parameters.includeSemanticPatterns)]]

\* the entities given to discoverRelationships: a type and attributes with no,
\* one, two or three entries
Entry(key, value) == [key |-> key, value |-> value]

EntityShapes ==
    { [type |-> "person", attributes |-> <<>>],
      [type |-> "person",
       attributes |-> <<Entry("category", "group"), Entry("faith", "iman")>>],
      [type |-> "person",
       attributes |-> <<Entry("category", "group"), Entry("faith", "iman"),
                        Entry("function", "reward")>>],
      [type |-> "place",
       attributes |-> <<Entry("category", "group"), Entry("function", "reward")>>],
      [type |-> "place",
       attributes |-> <<Entry("category", "group"), Entry("faith", "iman"),
                        Entry("function", "punishment")>>],
      [type |-> "event",
       attributes |-> <<Entry("category", "group"), Entry("faith", "iman")>>],
      [type |-> "concept", attributes |-> <<Entry("category", "value")>>],
      [type |-> "concept",
       attributes |-> <<Entry("category", "group"), Entry("faith", "iman")>>],
      [type |-> "attribute", attributes |-> <<Entry("category", "value")>>] }

\* where the entities are in the text: nowhere (no references), or the k-th
\* one gap characters after the one before
Layouts == {0, 10, 200}

EntityAt(k, shape, layout) ==
    [id |-> k, type |-> shape.type, name |-> k, attributes |-> shape.attributes,
     references |-> IF layout = 0 THEN <<>>
                    ELSE <<[start |-> (k - 1) * layout, end |-> (k - 1) * layout + 5]>>]

EntityLists ==
    UNION { { [k \in 1..n |-> EntityAt(k, shapes[k], layout)] :
                shapes \in [1..n -> EntityShapes],
                layout \in Layouts } : n \in 1..MaxEntities }

\* the texts given to analyzeText: what the pattern regexes match, which entity
\* terms occur, and how far apart
TermSets == {{}, {1}, {2, 3}, {4, 13}, {4, 7}, {7, 16}, {5, 16}}

TermsAt(present, gap) ==
    [k \in 1..Len(entityTerms) |->
        IF k \in present
        THEN <<Cardinality({j \in present : j < k}) * gap>>
        ELSE <<>>]

AnalysisTexts ==
    { [patterns |-> patterns, terms |-> TermsAt(present, gap)] :
        patterns \in { text \in Texts :
                        /\ text.matches["exclusivity"] = <<>>
                        /\ text.matches["address"] = <<>>
                        /\ text.matches["repetition"] = <<>>
                        /\ text.matches["conditional_sequence"] \in {<<>>, <<30>>}
                        /\ text.themes["rahma"] \in {<<>>, Every(10, 3)}
                        /\ text.questions = 0 },
        present \in TermSets, gap \in {10, 200} }

NoTerms == [patterns |-> NoText, terms |-> TermsAt({}, 10)]

AnalysisParameters ==
    {NoParameters, NullParameters}
        \cup { Parameters(minConfidence, includeSemanticPatterns) :
                 minConfidence \in {Absent, Number(1000), Number(7000), ASymbol},
                 includeSemanticPatterns \in Bools }

\* parameters.minConfidence of discoverRelationships
RelationshipMinConfidences ==
    {Absent, Number(0), Number(1000), Number(3000), Number(7000), ASymbol}

NoAnalysis ==
    [op |-> "none", text |-> NoTerms, entities |-> <<>>, parameters |-> NoParameters,
     threw |-> FALSE, message |-> <<>>, steps |-> <<>>, result |-> NoResult]

(***************************************************************************)
(* ReasoningEngine (src/src/core/explorer/reasoning_engine.ts)             *)
(*                                                                         *)
(* A relation is its source and target ids, its type, its confidence in    *)
(* ten-thousandths and the sources of its evidence, in order.  An error    *)
(* is its message.                                                         *)
(***************************************************************************)
\* the items of initializeKnowledgeItems, in insertion order
knowledgeItems ==
    << [id |-> "concept-1", type |-> "concept", name |-> "taqwa",
        category |-> "value", domain |-> "ethics",
        implications |-> {"khashya", "taa"}],
       [id |-> "concept-2", type |-> "concept", name |-> "iman",
        category |-> "value", domain |-> "creed",
        implications |-> {"amal_salih", "taqwa"}],
       [id |-> "concept-3", type |-> "attribute", name |-> "khashya",
        category |-> "trait", domain |-> "ethics", implications |-> {}],
       [id |-> "concept-4", type |-> "attribute", name |-> "taa",
        category |-> "conduct", domain |-> "ethics", implications |-> {}],
       [id |-> "concept-5", type |-> "concept", name |-> "amal_salih",
        category |-> "conduct", domain |-> "worship", implications |-> {}] >>

\* knowledgeItems.has(id)
HasItem(id) == \E i \in 1..Len(knowledgeItems) : knowledgeItems[i].id = id

\* knowledgeItems.get(id), for an id of the map
GetItem(id) == knowledgeItems[CHOOSE i \in 1..Len(knowledgeItems) : knowledgeItems[i].id = id]

Relation(sourceId, targetId, type, confidence, evidence) ==
    [sourceId |-> sourceId, targetId |-> targetId, type |-> type,
     confidence |-> confidence, evidence |-> evidence]

\* the direct step in which a category match always makes a relation of its own
DirectRelationsSeparate(sourceItem, targetItem) ==
    (IF sourceItem.type = targetItem.type
     THEN <<Relation(sourceItem.id, targetItem.id, "similar_to", 6000, <<"type_matching">>)>>
     ELSE <<>>)
    \o (IF sourceItem.category = targetItem.category
        THEN <<Relation(sourceItem.id, targetItem.id, "similar_to", 7000,
                        <<"category_matching">>)>>
        ELSE <<>>)

\* discoverRelations, the direct relations based on attributes: the relations
\* list after the type test and the category test
DirectRelations(sourceItem, targetItem) ==
    LET byType == IF sourceItem.type = targetItem.type
                  THEN <<Relation(sourceItem.id, targetItem.id, "similar_to", 6000,
                                  <<"type_matching">>)>>
                  ELSE <<>>
    IN IF sourceItem.category # targetItem.category THEN byType
       ELSE IF Len(byType) > 0
       THEN <<[byType[1] EXCEPT !.confidence = @ + 2000,
                                !.evidence = Append(@, "category_matching")]>>
       ELSE <<Relation(sourceItem.id, targetItem.id, "similar_to", 7000,
                       <<"category_matching">>)>>

\* the relations of the inferenceRules that apply, in the order of the rules
InferredRelations(a, b) ==
    (IF a.type = b.type /\ a.category = b.category
     THEN <<Relation(a.id, b.id, "similar_to", 7000, <<"inference_rule">>)>>
     ELSE <<>>)
    \o (IF a.type = "concept" /\ b.type = "attribute" /\ a.domain = b.domain
        THEN <<Relation(a.id, b.id, "has_attribute", 8000, <<"inference_rule">>)>>
        ELSE <<>>)
    \o (IF b.name \in a.implications
        THEN <<Relation(a.id, b.id, "implies", 7500, <<"inference_rule">>)>>
        ELSE <<>>)

\* the explicit implication of discoverRelations
ExplicitImplication(a, b) ==
    IF b.name \in a.implications
    THEN <<Relation(a.id, b.id, "implies", 9000, <<"explicit_implication">>)>>
    ELSE <<>>

\* discoverRelations that answers an unknown id with no relations
discoverRelationsLenient(sourceId, targetId, option) ==
    [threw |-> FALSE, error |-> "", direct |-> <<>>, relations |-> <<>>]

\* ReasoningEngine.discoverRelations: whether it throws and with what message,
\* the relations of its direct step and the relations it returns.  A
\* minConfidence that is a Symbol is kept by ||, and comparing a number with
\* it throws a TypeError
discoverRelations(sourceId, targetId, option) ==
    IF ~HasItem(sourceId) \/ ~HasItem(targetId)
    THEN [threw |-> TRUE, error |-> "Source or target item not found",
          direct |-> <<>>, relations |-> <<>>]
    ELSE LET sourceItem == GetItem(sourceId)
             targetItem == GetItem(targetId)
             minConfidence == IF option.kind = "absent"
                                 \/ (option.kind = "number" /\ option.value = 0)
                              THEN 6000 ELSE option.value
             direct == DirectRelations(sourceItem, targetItem)
             relations == direct \o InferredRelations(sourceItem, targetItem)
                                 \o ExplicitImplication(sourceItem, targetItem)
         IN IF option.kind = "symbol" /\ Len(relations) > 0
            THEN [threw |-> TRUE, error |-> "TypeError", direct |-> direct,
                  relations |-> <<>>]
            ELSE [threw |-> FALSE, error |-> "", direct |-> direct,
                  relations |-> SelectSeq(relations,
                                          LAMBDA relation :
                                              relation.confidence >= minConfidence)]

\* the loop of inferKnowledge over the knowledge items, from the i-th on: the
\* inferences pushed, or the error of the discoverRelations call that threw
RECURSIVE InferFrom(_, _, _)
InferFrom(conceptId, minConfidence, i) ==
    IF i > Len(knowledgeItems) THEN [threw |-> FALSE, error |-> "", inferences |-> <<>>]
    ELSE IF knowledgeItems[i].id = conceptId
    THEN InferFrom(conceptId, minConfidence, i + 1)
    ELSE LET found == discoverRelations(conceptId, knowledgeItems[i].id, minConfidence)
             rest == InferFrom(conceptId, minConfidence, i + 1)
         IN IF found.threw
            THEN [threw |-> TRUE, error |-> found.error, inferences |-> <<>>]
            ELSE IF rest.threw THEN rest
            ELSE [threw |-> FALSE, error |-> "",
                  inferences |->
                     [k \in 1..Len(found.relations) |->
                        [type |-> "inferred_relation",
                         sourceId |-> found.relations[k].sourceId,
                         targetId |-> found.relations[k].targetId,
                         relationType |-> found.relations[k].type,
                         confidence |-> found.relations[k].confidence,
                         evidence |-> found.relations[k].evidence]]
                     \o rest.inferences]

\* ReasoningEngine.inferKnowledge
inferKnowledge(conceptId, option) ==
    IF ~HasItem(conceptId)
    THEN [threw |-> TRUE, error |-> "Concept item not found", inferences |-> <<>>]
    ELSE InferFrom(conceptId,
                   IF option.kind = "absent" \/ (option.kind = "number" /\ option.value = 0)
                   THEN Number(7000) ELSE option,
                   1)

\* the ids asked for: the five known ones and two that are not in the map
ItemIds == {knowledgeItems[i].id : i \in 1..Len(knowledgeItems)} \cup {"concept-6", ""}

\* parameters.minConfidence of discoverRelations and inferKnowledge
ReasoningMinConfidences ==
    {Absent, Number(0), Number(5000), Number(6500), Number(7500), Number(8500), ASymbol}

NoReasoning ==
    [op |-> "none", sourceId |-> "", targetId |-> "", option |-> Absent,
     threw |-> FALSE, error |-> "", direct |-> <<>>, relations |-> <<>>,
     inferences |-> <<>>]

(***************************************************************************)
(* verifyKnowledgeNode calls that overlap.  method.verify(node) runs when   *)
(* it is called and the call then waits at its await; when it resumes it   *)
(* adds the result to the node (or, the method having thrown, logs the     *)
(* error), calls the next method and waits again.  A call in flight is the *)
(* id it was given, the index pc of the method it waits for, what that     *)
(* method has computed, and the results it has pushed so far.              *)
(***************************************************************************)
NoOutcome == [threw |-> FALSE, result |-> FALSE, confidence |-> 0]

\* verifyKnowledgeNode(nodeId) up to its first await, or to its throw
Started(store, nodeId, overlapped) ==
    IF ~(nodeId \in 1..Len(store))
    THEN [nodeId |-> nodeId, pc |-> 0, pending |-> NoOutcome, results |-> <<>>,
          done |-> TRUE, threw |-> TRUE, overlapped |-> overlapped]
    ELSE [nodeId |-> nodeId, pc |-> 1,
          pending |-> Verify(verificationMethods[1], store[nodeId]),
          results |-> <<>>, done |-> FALSE, threw |-> FALSE, overlapped |-> overlapped]

\* a call that resumes and pushes nothing to its results
ResumedForgetting(store, call) ==
    LET method == verificationMethods[call.pc]
        n == IF call.pending.threw THEN store[call.nodeId]
             ELSE addVerificationResult(store[call.nodeId], method,
                                        call.pending.result, call.pending.confidence)
    IN [node |-> n,
        call |-> IF call.pc = Len(verificationMethods)
                 THEN [call EXCEPT !.pending = NoOutcome, !.done = TRUE]
                 ELSE [call EXCEPT !.pc = @ + 1,
                                   !.pending = Verify(verificationMethods[call.pc + 1], n)]]

\* a call that resumes from its await: the node and the call when it waits
\* again or has returned
Resumed(store, call) ==
    LET method == verificationMethods[call.pc]
        n == IF call.pending.threw THEN store[call.nodeId]
             ELSE addVerificationResult(store[call.nodeId], method,
                                        call.pending.result, call.pending.confidence)
        results == IF call.pending.threw THEN call.results
                   ELSE Append(call.results,
                               [method |-> method, result |-> call.pending.result,
                                confidence |-> call.pending.confidence])
    IN [node |-> n,
        call |-> IF call.pc = Len(verificationMethods)
                 THEN [call EXCEPT !.results = results, !.pending = NoOutcome,
                                   !.done = TRUE]
                 ELSE [call EXCEPT !.results = results, !.pc = @ + 1,
                                   !.pending = Verify(verificationMethods[call.pc + 1], n)]]

\* the nodes of the store of the overlapping calls: of each kind, with no edge,
\* one edge or two contradicting edges
ConcurrentNodes ==
    { Linked(KnowledgeNode(kind.type, kind.source, kind.attributes), types) :
        kind \in NodeKinds,
        types \in {<<>>, <<"similar_to">>, <<"similar_to", "opposite_of">>} }

\* a store that is about to be given a node built outside it
BuiltInit ==
    /\ node \in {n \in BuiltNodes : Len(n.relationships) <= MaxEdges}
    /\ nodes = <<>>
    /\ sources = {}
    /\ written = <<>>
    /\ calls = 0
    /\ last = NoCall
    /\ conceptsData = InitialConcepts
    /\ explorations = <<>>
    /\ running = NoExploration
    /\ explored = NoExplored
    /\ detected = NoDetection
    /\ analysed = NoAnalysis
    /\ reasoned = NoReasoning
    /\ inflight = <<>>

Init ==
    /\ node = KnowledgeNode("concept", "quran",
                            [count |-> 2, definition |-> "absent", time |-> "absent"])
    /\ nodes = <<>>
    /\ sources = {}
    /\ written = <<>>
    /\ calls = 0
    /\ last = NoCall
    /\ conceptsData = InitialConcepts
    /\ explorations = <<>>
    /\ running = NoExploration
    /\ explored = NoExplored
    /\ detected = NoDetection
    /\ analysed = NoAnalysis
    /\ reasoned = NoReasoning
    /\ inflight = <<>>

Create == \E kind \in NodeKinds, verify \in Bools : CreateKnowledgeNode(kind, verify)

Relate ==
    \E s \in Ids, t \in Ids, type \in RelationshipTypes,
       confidence \in EdgeConfidences, bidirectional \in Bools :
        CreateRelationship(s, t, type, confidence, bidirectional)

VerifyNode == \E id \in Ids : VerifyKnowledgeNode(id)

AddResult == \E result \in Bools, confidence \in Weights :
                AddVerificationResult(result, confidence)

\* the store, each call awaited before the next
Next == Create \/ Relate \/ VerifyNode

Spec == Init /\ [][Next]_vars

AddBuilt == \E verify \in Bools : AddKnowledgeNode(verify)

\* the store with one node built outside it
BuiltNext == AddBuilt \/ VerifyNode

BuiltSpec == BuiltInit /\ [][BuiltNext]_vars

\* exploreConcept(concept, {maxDepth}) up to the try block: the record is
\* created pending and stored.  Calls on the explorer are made one at a time
ExploreConcept(concept, option) ==
    /\ running = NoExploration
    /\ Len(explorations) < MaxExplorations
    /\ LET explorationId == Len(explorations) + 1
       IN /\ explorations' = Append(explorations,
                                    [id |-> explorationId, concept |-> concept,
                                     status |-> "pending", results |-> <<>>])
          /\ running' = [id |-> explorationId, concept |-> concept,
                         option |-> option, maxDepth |-> MaxDepthOf(option)]
    /\ UNCHANGED <<conceptsData, explored, graphVars, detected, otherVars>>

\* the try block of the exploreConcept call in flight, to its return or throw
ExploreConceptEnds ==
    /\ running # NoExploration
    /\ LET out == Explore(conceptsData, running.concept, running.maxDepth)
           exploration == explorations[running.id]
       IN /\ conceptsData' = IF out.threw THEN conceptsData ELSE out.traversal.store
          /\ explorations' =
                [explorations EXCEPT ![running.id] =
                    IF out.threw THEN Failed(exploration)
                    ELSE Completed(exploration, out.traversal.results)]
          /\ explored' = [id |-> running.id, concept |-> running.concept,
                          option |-> running.option, maxDepth |-> running.maxDepth,
                          threw |-> out.threw, before |-> conceptsData,
                          results |-> IF out.threw THEN <<>> ELSE out.traversal.results,
                          deepest |-> out.traversal.deepest,
                          expanded |-> out.traversal.expanded,
                          previous |-> [id |-> explored.id, concept |-> explored.concept,
                                        option |-> explored.option,
                                        threw |-> explored.threw,
                                        before |-> explored.before,
                                        results |-> explored.results]]
    /\ running' = NoExploration
    /\ UNCHANGED <<graphVars, detected, otherVars>>

StartExplore == \E concept \in ConceptNames, option \in MaxDepths :
                    ExploreConcept(concept, option)

\* the explorer, one exploreConcept call at a time
ExploreNext == StartExplore \/ ExploreConceptEnds

ExploreSpec == Init /\ [][ExploreNext]_vars

\* detectPatterns(text, {minConfidence, includeSemanticPatterns}) on the text
\* at hand
DetectPatterns(option, includeSemanticPatterns) ==
    /\ detected' = [called |-> TRUE, text |-> detected.text, minConfidence |-> option,
                    includeSemanticPatterns |-> includeSemanticPatterns,
                    patterns |-> detectPatterns(detected.text, option,
                                                includeSemanticPatterns)]
    /\ UNCHANGED <<graphVars, explorerVars, otherVars>>

\* a detector and a text to analyse
PatternInit ==
    /\ node = KnowledgeNode("concept", "quran",
                            [count |-> 2, definition |-> "absent", time |-> "absent"])
    /\ nodes = <<>>
    /\ sources = {}
    /\ written = <<>>
    /\ calls = 0
    /\ last = NoCall
    /\ conceptsData = InitialConcepts
    /\ explorations = <<>>
    /\ running = NoExploration
    /\ explored = NoExplored
    /\ detected \in {[NoDetection EXCEPT !.text = text] : text \in Texts}
    /\ analysed = NoAnalysis
    /\ reasoned = NoReasoning
    /\ inflight = <<>>

Detect == \E option \in MinConfidences, includeSemanticPatterns \in Bools :
              DetectPatterns(option, includeSemanticPatterns)

\* the pattern detector, called again and again on one text
PatternNext == Detect

PatternSpec == PatternInit /\ [][PatternNext]_vars

\* analyzeText(text, parameters) on the text at hand
AnalyzeText(parameters) ==
    /\ LET out == analyzeText(analysed.text, parameters)
       IN analysed' = [op |-> "analyzeText", text |-> analysed.text,
                       entities |-> analysed.entities, parameters |-> parameters,
                       threw |-> out.threw, message |-> out.message,
                       steps |-> out.steps, result |-> out.result]
    /\ UNCHANGED <<graphVars, explorerVars, detected, reasoned, inflight>>

\* discoverRelationships(entities, text, {minConfidence}) on the entities at hand
DiscoverRelationships(option) ==
    /\ LET out == discoverRelationships(analysed.entities, option)
       IN analysed' = [op |-> "discoverRelationships", text |-> analysed.text,
                       entities |-> analysed.entities,
                       parameters |-> Parameters(option, FALSE),
                       threw |-> out.threw, message |-> <<>>,
                       steps |-> <<"discoverRelationships">>,
                       result |-> [NoResult EXCEPT !.relationships = out.relationships]]
    /\ UNCHANGED <<graphVars, explorerVars, detected, reasoned, inflight>>

\* an analyser with a text to analyse, or with a list of entities to relate
AnalysisInit ==
    /\ node = KnowledgeNode("concept", "quran",
                            [count |-> 2, definition |-> "absent", time |-> "absent"])
    /\ nodes = <<>>
    /\ sources = {}
    /\ written = <<>>
    /\ calls = 0
    /\ last = NoCall
    /\ conceptsData = InitialConcepts
    /\ explorations = <<>>
    /\ running = NoExploration
    /\ explored = NoExplored
    /\ detected = NoDetection
    /\ analysed \in {[NoAnalysis EXCEPT !.text = text] : text \in AnalysisTexts}
                    \cup {[NoAnalysis EXCEPT !.entities = entities] :
                            entities \in EntityLists}
    /\ reasoned = NoReasoning
    /\ inflight = <<>>

Analyze == \E parameters \in AnalysisParameters : AnalyzeText(parameters)

Discover == \E option \in RelationshipMinConfidences : DiscoverRelationships(option)

\* the analyser, called again and again on one input
AnalysisNext == Analyze \/ Discover

AnalysisSpec == AnalysisInit /\ [][AnalysisNext]_vars

\* discoverRelations(sourceId, targetId, {minConfidence})
DiscoverRelations(sourceId, targetId, option) ==
    /\ LET out == discoverRelations(sourceId, targetId, option)
       IN reasoned' = [op |-> "discoverRelations", sourceId |-> sourceId,
                       targetId |-> targetId, option |-> option,
                       threw |-> out.threw, error |-> out.error,
                       direct |-> out.direct, relations |-> out.relations,
                       inferences |-> <<>>]
    /\ UNCHANGED <<graphVars, explorerVars, detected, analysed, inflight>>

\* inferKnowledge(conceptId, {minConfidence})
InferKnowledge(conceptId, option) ==
    /\ LET out == inferKnowledge(conceptId, option)
       IN reasoned' = [op |-> "inferKnowledge", sourceId |-> conceptId,
                       targetId |-> "", option |-> option,
                       threw |-> out.threw, error |-> out.error,
                       direct |-> <<>>, relations |-> <<>>,
                       inferences |-> out.inferences]
    /\ UNCHANGED <<graphVars, explorerVars, detected, analysed, inflight>>

Relations == \E sourceId \in ItemIds, targetId \in ItemIds, option \in ReasoningMinConfidences :
                DiscoverRelations(sourceId, targetId, option)

Infer == \E conceptId \in ItemIds, option \in ReasoningMinConfidences :
            InferKnowledge(conceptId, option)

\* the reasoning engine, one call after the other
ReasoningNext == Relations \/ Infer

ReasoningSpec == Init /\ [][ReasoningNext]_vars

\* verifyKnowledgeNode(nodeId) is called, while earlier calls may still wait
StartVerify(nodeId) ==
    /\ Len(inflight) < MaxInFlight
    /\ inflight' = Append(inflight,
                          Started(nodes, nodeId,
                                  \E c \in 1..Len(inflight) : ~inflight[c].done))
    /\ UNCHANGED <<graphVars, explorerVars, detected, analysed, reasoned>>

\* the c-th call resumes from its await
ResumeVerify(c) ==
    /\ c \in 1..Len(inflight)
    /\ ~inflight[c].done
    /\ LET out == Resumed(nodes, inflight[c])
       IN /\ nodes' = [nodes EXCEPT ![inflight[c].nodeId] = out.node]
          /\ inflight' = [inflight EXCEPT ![c] = out.call]
    /\ UNCHANGED <<node, sources, written, calls, last>>
    /\ UNCHANGED <<explorerVars, detected, analysed, reasoned>>

\* a store with one node, not verified when it was added
ConcurrentInit ==
    /\ node = KnowledgeNode("concept", "quran",
                            [count |-> 2, definition |-> "absent", time |-> "absent"])
    /\ nodes \in {<<n>> : n \in ConcurrentNodes}
    /\ sources = {}
    /\ written = <<<<>>>>
    /\ calls = 0
    /\ last = NoCall
    /\ conceptsData = InitialConcepts
    /\ explorations = <<>>
    /\ running = NoExploration
    /\ explored = NoExplored
    /\ detected = NoDetection
    /\ analysed = NoAnalysis
    /\ reasoned = NoReasoning
    /\ inflight = <<>>

Start == \E nodeId \in Ids : StartVerify(nodeId)

Resume == \E c \in 1..MaxInFlight : ResumeVerify(c)

\* verifyKnowledgeNode calls made without awaiting the ones before
ConcurrentNext == Start \/ Resume

ConcurrentSpec == ConcurrentInit /\ [][ConcurrentNext]_vars

\* one KnowledgeNode on its own
NodeNext == AddResult

NodeSpec == Init /\ [][NodeNext]_vars

(***************************************************************************)
(* Claims about one KnowledgeNode (NodeSpec)                               *)
(***************************************************************************)
PositiveWeight(r) == IF r.result THEN r.confidence ELSE 0

Half == Scale \div 2

\* C1: after any sequence of addVerificationResult calls with weights in
\* [0,1] the confidence of a fresh node is a number in [0,1].
\* Refuted by the code: a first result of weight 0 divides 0 by 0.
C1_ConfidenceInUnitInterval ==
    Ge(node.confidence, 0) /\ Le(node.confidence, Scale)

\* C2: every addVerificationResult call sets
\* confidence' = 0.3 * confidence + 0.7 * N, with N the weight of the positive
\* results over the weight of all results, the new one included (0/0 is NaN);
\* one negative result of positive weight on a fresh node gives exactly 0.3,
\* which is below the initial 1.0.
C2_DampenedUpdate ==
    [][ node'.verificationResults # node.verificationResults =>
          LET results == node'.verificationResults
              all == Sum([i \in 1..Len(results) |-> results[i].confidence])
              positive == Sum([i \in 1..Len(results) |-> PositiveWeight(results[i])])
              N == IF all = 0 THEN NaN ELSE (positive * Scale) \div all
              first == results[1]
          IN /\ Len(results) = Len(node.verificationResults) + 1
             /\ node'.confidence =
                  IF IsNaN(node.confidence) \/ IsNaN(N) THEN NaN
                  ELSE (3 * node.confidence + 7 * N) \div 10
             /\ (Len(results) = 1 /\ ~first.result /\ first.confidence > 0) =>
                  /\ node'.confidence = (3 * Scale) \div 10
                  /\ Lt(node'.confidence, node.confidence) ]_vars

\* C2's case: a negative result, then a positive one, both of positive weight
C2_Witness ==
    /\ Len(node.verificationResults) = 2
    /\ ~node.verificationResults[1].result
    /\ node.verificationResults[1].confidence > 0
    /\ node.verificationResults[2].result
    /\ node.verificationResults[2].confidence > 0
    /\ Gt(node.confidence, (3 * Scale) \div 10)

\* C3: on a fresh node, a negative result followed by a positive result of
\* larger weight leaves the confidence above 0.5 and below 1.0.  Stated for a
\* negative result of positive weight, so that nothing rests on 0/0.
\* Refuted by the code on the weights of the unit test, 0.8 then 0.9.
C3_NegativeThenLargerPositive ==
    LET results == node.verificationResults
    IN (/\ Len(results) = 2
        /\ ~results[1].result /\ results[1].confidence > 0
        /\ results[2].result /\ results[2].confidence > results[1].confidence)
       => Gt(node.confidence, Half) /\ Lt(node.confidence, Scale)

\* C27: appending a result of positive weight to a history whose confidence is
\* a number moves the confidence in the direction of the result: a positive
\* result never lowers it and a negative result never raises it.  Each update
\* truncates once, so the comparison allows one unit of 1/Scale per result.
\* Refuted by the code: after a positive and a negative result of weight 1.0
\* the confidence is 0.65, and a positive result of weight 0.5 makes it 0.615.
C27_MovesTowardsResult ==
    [][ (/\ node'.verificationResults # node.verificationResults
         /\ ~IsNaN(node.confidence)
         /\ node'.verificationResults[Len(node'.verificationResults)].confidence > 0)
        => IF node'.verificationResults[Len(node'.verificationResults)].result
           THEN node'.confidence + MaxHistory >= node.confidence
           ELSE node'.confidence <= node.confidence + MaxHistory ]_vars

EdgeIs(n, target, type, confidence) ==
    /\ Cardinality({i \in 1..Len(n.relationships) : n.relationships[i].key = target}) = 1
    /\ \E i \in 1..Len(n.relationships) :
          /\ n.relationships[i].key = target
          /\ n.relationships[i].type = type
          /\ n.relationships[i].confidence = confidence

\* the step is a call of this operation
Called(op) == calls' # calls /\ last'.op = op

\* the methods of a list of outcomes, in order
MethodsOf(results) == [i \in 1..Len(results) |-> results[i].method]

\* C4: createRelationship with a source id or a target id that is not in the
\* store returns false and leaves the node set, the source set and every
\* node's edges, history and confidence as they were.
C4_UnknownIdChangesNothing ==
    [][ (Called("createRelationship") /\ (~Known(last'.id) \/ ~Known(last'.target))) =>
          /\ last'.ret = FALSE
          /\ nodes' = nodes
          /\ sources' = sources ]_vars

\* C4's case: the source exists and has a history, the target does not, and
\* the call asked for a bidirectional link
C4_Witness ==
    /\ last.op = "createRelationship"
    /\ last.bidirectional
    /\ Known(last.id) /\ ~Known(last.target)
    /\ Len(nodes[last.id].verificationResults) > 0
    /\ last.ret = FALSE

\* the reverse type as the claim states it
ClaimedReverseType(type) ==
    CASE type = "contains" -> "contained_in"
      [] type = "contains_part" -> "part_of"
      [] type = "causes" -> "caused_by"
      [] type = "precedes" -> "follows"
      [] type = "parent_of" -> "child_of"
      [] type = "implies" -> "implied_by"
      [] type = "supports" -> "supported_by"
      [] type = "contradicts" -> "contradicted_by"
      [] OTHER -> type \o "_by"

\* C5: createRelationship(s, t, type, c, bidirectional) between two distinct
\* stored nodes returns true and leaves an edge s->t of type `type` and, when
\* bidirectional, an edge t->s whose type is the reverse of `type` from the
\* fixed table or `type` + "_by" for any other type, both with confidence c;
\* when not bidirectional the edges of t are unchanged.
\* Refuted by the code for a type such as "constructor", which the object
\* literal reverseMap inherits.
C5_ReverseEdgeOfTheTable ==
    [][ (/\ Called("createRelationship")
         /\ Known(last'.id) /\ Known(last'.target)
         /\ last'.id # last'.target) =>
          LET s == last'.id
              t == last'.target
          IN /\ last'.ret = TRUE
             /\ EdgeIs(nodes'[s], t, last'.type, last'.confidence)
             /\ IF last'.bidirectional
                THEN EdgeIs(nodes'[t], s, ClaimedReverseType(last'.type), last'.confidence)
                ELSE nodes'[t].relationships = nodes[t].relationships ]_vars

\* C6 as stated: after any successful createRelationship(s, t, type, c, b),
\* s = t included, node s holds an edge to t with exactly the type `type` and
\* the confidence c.
C6_ForwardEdgeAlways ==
    (last.op = "createRelationship" /\ last.ret) =>
        EdgeIs(nodes[last.id], last.target, last.type, last.confidence)

\* C6, amended: after a successful createRelationship(s, t, type, c, b) with
\* s # t or b false, node s holds an edge to t with exactly the type `type`
\* and the confidence c, and the reverse edge of a bidirectional link is kept
\* on t; with s = t and b true the reverse edge replaces the forward one, so
\* the one self-edge has confidence c and a type other than `type`.
C6_ForwardEdgeUnlessSelfLoop ==
    (last.op = "createRelationship" /\ last.ret) =>
        LET s == last.id
            t == last.target
        IN IF s # t \/ ~last.bidirectional
           THEN /\ EdgeIs(nodes[s], t, last.type, last.confidence)
                /\ last.bidirectional => MapHas(nodes[t].relationships, s)
           ELSE /\ ~EdgeIs(nodes[s], s, last.type, last.confidence)
                /\ \E i \in 1..Len(nodes[s].relationships) :
                      /\ nodes[s].relationships[i].key = s
                      /\ nodes[s].relationships[i].type # last.type
                      /\ nodes[s].relationships[i].confidence = last.confidence

\* C6's case: a bidirectional link between two distinct nodes, in place on both
C6_Witness ==
    /\ last.op = "createRelationship" /\ last.ret
    /\ last.bidirectional
    /\ last.id # last.target
    /\ last.confidence < 100
    /\ MapHas(nodes[last.id].relationships, last.target)
    /\ MapHas(nodes[last.target].relationships, last.id)

\* C7: a node holds at most one edge per target id; the edge for (source,
\* target) carries the type and confidence of the last call that wrote that
\* pair, and the node's edge count is the number of distinct targets written.
C7_OneEdgePerTarget ==
    \A id \in 1..Len(nodes) :
        LET edges == nodes[id].relationships
        IN /\ \A i, j \in 1..Len(edges) : edges[i].key = edges[j].key => i = j
           /\ {edges[i].key : i \in 1..Len(edges)} = DOMAIN written[id]
           /\ Len(edges) = Cardinality(DOMAIN written[id])
           /\ \A i \in 1..Len(edges) :
                 /\ edges[i].type = written[id][edges[i].key].type
                 /\ edges[i].confidence = written[id][edges[i].key].confidence

\* C7's case: a pair written a second time by the last call
C7_Witness ==
    \E id \in 1..Len(nodes) : \E t \in DOMAIN written[id] :
        /\ written[id][t].writes >= 2
        /\ last.op = "createRelationship" /\ last.ret /\ ~last.bidirectional
        /\ last.id = id /\ last.target = t

\* C8: verifyKnowledgeNode with an id that is not in the store fails with a
\* not-found error, runs no method and leaves every node's history and
\* confidence unchanged.
C8_VerifyUnknownThrows ==
    [][ (Called("verifyKnowledgeNode") /\ ~Known(last'.id)) =>
          /\ last'.threw
          /\ last'.results = <<>>
          /\ nodes' = nodes ]_vars

\* C8's case: the call failed on a store that holds a verified node
C8_Witness ==
    /\ last.op = "verifyKnowledgeNode"
    /\ ~Known(last.id)
    /\ last.threw
    /\ \E id \in 1..Len(nodes) : Len(nodes[id].verificationResults) > 0

\* a concatenation of complete triples, in the order of the methods
CompleteTriples(results) ==
    /\ Len(results) % 3 = 0
    /\ \A i \in 1..Len(results) :
          results[i].method =
            <<"source_reliability", "attribute_consistency",
              "relationship_coherence">>[((i - 1) % 3) + 1]

\* no accessor among the node's attributes throws when read
NoAccessorThrows(n) == n.attributes.definition # "throws" /\ n.attributes.time # "throws"

DefinitionThrows(n) == n.type = "concept" /\ n.attributes.definition = "throws"

\* C10: when a verification method throws during verifyKnowledgeNode, the
\* call still returns, the methods after it still run and append their
\* outcomes in order, the failing method adds no history entry and no
\* returned outcome, and createKnowledgeNode with verify = true still returns
\* the stored node.
C10_ThrowingMethodIsSkipped ==
    [][ /\ (Called("verifyKnowledgeNode") /\ Known(last'.id)
              /\ DefinitionThrows(nodes[last'.id])) =>
              /\ last'.ret /\ ~last'.threw
              /\ MethodsOf(last'.results) = <<"source_reliability", "relationship_coherence">>
              /\ nodes'[last'.id].verificationResults =
                    nodes[last'.id].verificationResults \o last'.results
        /\ (Called("createKnowledgeNode") /\ last'.verify
              /\ DefinitionThrows(nodes'[Len(nodes')])) =>
              /\ last'.ret
              /\ last'.id = Len(nodes') /\ Len(nodes') = Len(nodes) + 1
              /\ MethodsOf(nodes'[last'.id].verificationResults) =
                    <<"source_reliability", "relationship_coherence">> ]_vars

\* C10's case: a stored node whose attribute_consistency threw in both passes
C10_Witness ==
    /\ last.op = "verifyKnowledgeNode" /\ last.ret
    /\ DefinitionThrows(nodes[last.id])
    /\ MethodsOf(last.results) = <<"source_reliability", "relationship_coherence">>
    /\ Len(nodes[last.id].verificationResults) = 4

\* C11: after creating nodes with verify = true, at least one of them from a
\* source of reliability above 0.7, getStatistics reports
\* verifiedNodeCount > 0.  Stated on the states in which every call so far
\* was a createKnowledgeNode with verify = true.
\* Refuted by the code: a node just created has no edges, so its
\* relationship_coherence outcome is negative and its score is at most 2/3.
C11_VerifiedNodeCountPositive ==
    (/\ nodes # <<>>
     /\ calls = Len(nodes)
     /\ \A id \in 1..Len(nodes) : nodes[id].verificationResults # <<>>
     /\ \E id \in 1..Len(nodes) : getSourceReliability(nodes[id].source) > 70)
    => getStatistics(nodes, sources).verifiedNodeCount > 0

(***************************************************************************)
(* Claims about the relationship_coherence method (BuiltSpec)              *)
(***************************************************************************)
\* the confidence the claim states for n edges, in hundredths
ClaimedCoherence(n, both) ==
    IF n = 0 THEN 50
    ELSE LET capped == IF 50 + 5 * n < 90 THEN 50 + 5 * n ELSE 90
             reduced == capped - (IF both THEN 20 ELSE 0)
         IN IF reduced > 10 THEN reduced ELSE 10

HasEdgeOfType(n, type) ==
    \E i \in 1..Len(n.relationships) : n.relationships[i].type = type

\* the outcomes a step appends to the history of node id
Appended(id) ==
    LET old == IF id \in 1..Len(nodes) THEN Len(nodes[id].verificationResults) ELSE 0
    IN SubSeq(nodes'[id].verificationResults, old + 1,
              Len(nodes'[id].verificationResults))

\* C13: the relationship_coherence outcome of a node with n edges has
\* confidence 0.5 when n = 0 and otherwise max(0.1, min(0.5 + 0.05 n, 0.9) - p),
\* with p = 0.2 when the node has both a similar_to and an opposite_of edge
\* and p = 0 otherwise; its result is true exactly when that confidence is
\* above 0.5, so a node with no edges never passes the method.
C13_CoherenceOutcome ==
    [][ \A id \in 1..Len(nodes') :
          LET n == Len(nodes'[id].relationships)
              both == HasEdgeOfType(nodes'[id], "similar_to")
                        /\ HasEdgeOfType(nodes'[id], "opposite_of")
              new == Appended(id)
          IN \A i \in 1..Len(new) :
                new[i].method = "relationship_coherence" =>
                   /\ new[i].confidence = ClaimedCoherence(n, both)
                   /\ new[i].result <=> (ClaimedCoherence(n, both) > 50)
                   /\ n = 0 => ~new[i].result ]_vars

\* C13's case: a stored node with nine edges, a similar_to and an opposite_of
\* among them, passed the method with the capped and reduced confidence 0.7
C13_Witness ==
    /\ Len(nodes) = 1
    /\ Len(nodes[1].relationships) >= 9
    /\ HasEdgeOfType(nodes[1], "similar_to")
    /\ HasEdgeOfType(nodes[1], "opposite_of")
    /\ \E i \in 1..Len(nodes[1].verificationResults) :
          /\ nodes[1].verificationResults[i].method = "relationship_coherence"
          /\ nodes[1].verificationResults[i].confidence = 70
          /\ nodes[1].verificationResults[i].result

(***************************************************************************)
(* Claims about the explorer (ExploreSpec)                                 *)
(***************************************************************************)
\* every id issued gives its record, every other id gives null
Retrievable ==
    \A id \in 0..(MaxExplorations + 1) :
        IF id \in 1..Len(explorations)
        THEN getExplorationById(id) # Null /\ getExplorationById(id).id = id
        ELSE getExplorationById(id) = Null

\* the step is the end of the exploreConcept call in flight
Ends == running # NoExploration /\ running' = NoExploration

\* C14: every exploration record starts in status pending when exploreConcept
\* begins, moves only to completed or to failed, and never changes status
\* again; the record exploreConcept returns has status completed; after the
\* call the record stays retrievable by its id through getExplorationById,
\* which returns null for an id never issued.
C14_Lifecycle ==
    [][ /\ Len(explorations') >= Len(explorations)
        /\ \A id \in 1..Len(explorations) :
              /\ explorations'[id].id = explorations[id].id
              /\ explorations'[id].status # explorations[id].status =>
                    /\ explorations[id].status = "pending"
                    /\ explorations'[id].status \in {"completed", "failed"}
        /\ \A id \in (Len(explorations) + 1)..Len(explorations') :
              /\ explorations'[id].status = "pending"
              /\ explorations'[id].results = <<>>
        /\ Ends =>
              /\ explorations'[running.id].status =
                    IF explored'.threw THEN "failed" ELSE "completed"
              /\ ~explored'.threw => explorations'[running.id].results = explored'.results
        /\ Retrievable' ]_vars

\* C14's case: one call returned its record and another failed, and both
\* records are still there
C14_Witness ==
    /\ running = NoExploration
    /\ Len(explorations) = 2
    /\ getExplorationById(1).status = "completed"
    /\ getExplorationById(1).results # <<>>
    /\ getExplorationById(2).status = "failed"
    /\ getExplorationById(3) = Null

\* no stored concept name equals or contains the name
NoStoredNameMatches(store, name) ==
    \A i \in 1..Len(store) : store[i].name # name /\ ~Includes(store[i].name, name)

\* the last finished call stored one new concept of type "unknown" with the
\* name asked for, completed, and returned that concept alone
MaterializedAlone ==
    LET newId == Len(explored.before) + 1
    IN /\ ~explored.threw
       /\ explorations[explored.id].status = "completed"
       /\ conceptsData = Append(explored.before,
                                [id |-> newId, name |-> explored.concept,
                                 type |-> "unknown"])
       /\ explorations[explored.id].results = explored.results
       /\ Len(explored.results) = 1
       /\ explored.results[1].id = newId
       /\ explored.results[1].name = explored.concept
       /\ explored.results[1].type = "unknown"

\* C15 as stated: exploreConcept with a name that no stored concept name
\* equals or contains does not fail: it inserts one new concept with that
\* name and type "unknown", ends completed, and its result list is exactly
\* that one concept.
C15_UnknownNameMaterialized ==
    (explored.id # 0 /\ NoStoredNameMatches(explored.before, explored.concept))
    => MaterializedAlone

\* C15, amended: exploreConcept with a name that no stored concept name
\* equals or contains, and a maxDepth that is absent, 0 or a positive number,
\* does not fail: it inserts one new concept with that name and type
\* "unknown", ends completed, and its result list is exactly that one concept.
C15_UnknownNameMaterializedAtDepth ==
    (/\ explored.id # 0
     /\ NoStoredNameMatches(explored.before, explored.concept)
     /\ explored.option.kind \in {"absent", "number"}
     /\ explored.option.value >= 0)
    => MaterializedAlone

\* C15's case: a second unknown name, materialized as the fifth concept by a
\* call that passed no maxDepth
C15_Witness ==
    /\ explored.id = 2
    /\ explored.option = Absent
    /\ NoStoredNameMatches(explored.before, explored.concept)
    /\ Len(explored.before) = 4
    /\ Len(conceptsData) = 5
    /\ conceptsData[5].type = "unknown"
    /\ conceptsData[5].name = explored.concept

\* C16: for every maxDepth >= 1 exploreConcept terminates and its recursion
\* never goes deeper than maxDepth levels, although the stored concepts are
\* each other's related concepts; with maxDepth = 1 no related concept is
\* entered, so the result holds only the concepts whose name equals or
\* contains the requested name, or the single materialized one.
\* Termination is the call's reaching its end with the record completed: the
\* recursion is evaluated in full for every call made.
C16_TerminatesWithinDepth ==
    (explored.id # 0 /\ explored.option.kind = "number" /\ explored.option.value >= 1)
    => /\ ~explored.threw
       /\ explorations[explored.id].status = "completed"
       /\ explored.deepest >= 1
       /\ explored.deepest <= explored.option.value
       /\ explored.option.value = 1 =>
             /\ explored.expanded = <<explored.concept>>
             /\ \A i \in 1..Len(explored.results) :
                   \/ explored.results[i].name = explored.concept
                   \/ Includes(explored.results[i].name, explored.concept)
             /\ NoStoredNameMatches(explored.before, explored.concept) =>
                   Len(explored.results) = 1

\* C16's case: a call with maxDepth 3 on concepts that are related to each
\* other went three levels deep and returned
C16_Witness ==
    /\ explored.id # 0
    /\ explored.option = Number(3)
    /\ explored.deepest = 3
    /\ Len(explored.expanded) >= 3
    /\ explorations[explored.id].status = "completed"
    /\ \E i, j \in 1..Len(explored.results) :
          /\ i # j
          /\ \E k \in 1..Len(explored.results[i].references) :
                explored.results[i].references[k] = explored.results[j].id
          /\ \E k \in 1..Len(explored.results[j].references) :
                explored.results[j].references[k] = explored.results[i].id

\* C17: within one exploreConcept call each concept name is expanded at most
\* once: a name that is in the call's visited set is never looked up again
\* during the call; and the visited set starts empty on every top-level call,
\* so a call that explores at all looks up the requested name first, whatever
\* the calls before it visited.
C17_ExpandedOnce ==
    explored.id # 0 =>
        /\ \A i, j \in 1..Len(explored.expanded) :
              explored.expanded[i] = explored.expanded[j] => i = j
        /\ (~explored.threw /\ explored.maxDepth.value >= 1) =>
              /\ explored.expanded # <<>>
              /\ explored.expanded[1] = explored.concept

\* C17's case: the second of two calls for the same name went three levels
\* deep, where the related concepts lead back to names already visited, and
\* looked up three names
C17_Witness ==
    /\ explored.id = 2
    /\ explorations[1].concept = explorations[2].concept
    /\ explorations[1].status = "completed"
    /\ explorations[1].results # <<>>
    /\ explored.deepest = 3
    /\ Len(explored.expanded) >= 3

\* C18: exploreConcept called with maxDepth 0 or a negative maxDepth returns a
\* completed record with an empty result list and adds no concept to the
\* store.
\* Refuted by the code for maxDepth 0, which "|| 2" replaces by the default.
C18_NoDepthNoResults ==
    (explored.id # 0 /\ explored.option.kind = "number" /\ explored.option.value <= 0)
    => /\ ~explored.threw
       /\ explorations[explored.id].status = "completed"
       /\ explorations[explored.id].results = <<>>
       /\ conceptsData = explored.before

(***************************************************************************)
(* Claims about the pattern detector (PatternSpec)                         *)
(***************************************************************************)
\* C19: for every text and every options value, includeSemanticPatterns =
\* true included, each pattern returned by detectPatterns has a confidence of
\* at least the minConfidence that was passed; with minConfidence 0.99 no
\* pattern of any type is returned.
\* Refuted by the code: the semantic patterns are never compared with
\* minConfidence.
C19_AtLeastMinConfidence ==
    (detected.called /\ detected.minConfidence.kind = "number") =>
        /\ \A i \in 1..Len(detected.patterns) :
              detected.patterns[i].confidence >= detected.minConfidence.value
        /\ detected.minConfidence.value = 9900 => detected.patterns = <<>>

\* C20: for a fixed text and fixed other options, the number of patterns
\* returned by detectPatterns never increases when minConfidence is raised:
\* for all numbers a <= b, 0 and negative values included,
\* count(minConfidence = b) <= count(minConfidence = a).
C20_CountMonotone ==
    detected.called =>
        \A a \in Thresholds, b \in Thresholds :
            a <= b =>
               Len(detectPatterns(detected.text, Number(b), detected.includeSemanticPatterns))
               <= Len(detectPatterns(detected.text, Number(a), detected.includeSemanticPatterns))

\* C20's case: a call with minConfidence 0 returned as many patterns as 0.5
\* gives on the same text, and 0.9 gives fewer, but some
C20_Witness ==
    /\ detected.called
    /\ detected.minConfidence = Number(0)
    /\ ~detected.includeSemanticPatterns
    /\ Len(detected.patterns) =
          Len(detectPatterns(detected.text, Number(5000), FALSE))
    /\ Len(detectPatterns(detected.text, Number(9000), FALSE)) < Len(detected.patterns)
    /\ Len(detectPatterns(detected.text, Number(9000), FALSE)) > 0

\* C21: every pattern returned by detectPatterns, structural or semantic, has
\* a confidence in [0,1], whatever the text and however often a theme term
\* occurs in it.
\* Refuted by the code: a theme that occurs six times gets 0.75 + 0.05 * 6.
C21_ConfidenceInUnitInterval ==
    \A i \in 1..Len(detected.patterns) :
        /\ detected.patterns[i].confidence >= 0
        /\ detected.patterns[i].confidence <= 10000
(***************************************************************************)
(* Claims about IntegratedQuranAnalysis (AnalysisSpec)                     *)
(***************************************************************************)
\* s = matchingAttributePairs / min(|attrsA|, |attrsB|), in ten-thousandths
ClaimedSimilarity(entityA, entityB) ==
    (MatchCount(entityA, entityB) * 10000)
        \div Min(Len(entityA.attributes), Len(entityB.attributes))

\* the pairs of distinct entities of the list at hand that a rule is about
RulePairs(rule) ==
    { p \in (1..Len(analysed.entities)) \X (1..Len(analysed.entities)) :
        /\ p[1] # p[2]
        /\ analysed.entities[p[1]].type = rule.sourceType
        /\ analysed.entities[p[2]].type = rule.targetType
        /\ Len(analysed.entities[p[1]].attributes) > 0
        /\ Len(analysed.entities[p[2]].attributes) > 0 }

\* the call returned a relationship of this rule between these two entities
\* with confidence baseConfidence * s
Related(rule, p) ==
    \E i \in 1..Len(analysed.result.relationships) :
        analysed.result.relationships[i] =
            [type |-> rule.relationshipType, sourceEntityId |-> p[1],
             targetEntityId |-> p[2],
             confidence |-> ScoreTimes(rule.confidenceScore,
                                       ClaimedSimilarity(analysed.entities[p[1]],
                                                         analysed.entities[p[2]])),
             evidence |-> "semantic_analysis"]

\* a discoverRelationships call with a number for minConfidence has returned
Discovered ==
    /\ analysed.op = "discoverRelationships"
    /\ analysed.parameters.minConfidence.kind = "number"

\* C22 as stated: whenever baseConfidence * s reaches minConfidence, the
\* relation of the rule is returned with confidence baseConfidence * s; only
\* the final filter drops a candidate.
C22_RelatedWheneverAboveMinConfidence ==
    Discovered =>
        \A r \in 1..Len(semanticRules) : \A p \in RulePairs(semanticRules[r]) :
            ScoreTimes(semanticRules[r].confidenceScore,
                       ClaimedSimilarity(analysed.entities[p[1]], analysed.entities[p[2]]))
                    >= analysed.parameters.minConfidence.value
                => Related(semanticRules[r], p)

\* the threshold in force: minConfidence, or 0.7 when it is left out or 0
ThresholdInForce ==
    IF analysed.parameters.minConfidence.kind = "absent"
       \/ analysed.parameters.minConfidence.value = 0
    THEN 7000 ELSE analysed.parameters.minConfidence.value

\* C22: for every type-pair rule and every pair of distinct entities of its
\* types, both with attributes, discoverRelationships with a numeric or absent
\* minConfidence returns the relation of the rule, with confidence
\* baseConfidence * s, exactly when the similarity s is above 0.5 and
\* baseConfidence * s is at least the threshold in force.
C22_RelatedWhenSimilarAndAboveThreshold ==
    (analysed.op = "discoverRelationships"
        /\ analysed.parameters.minConfidence.kind # "symbol") =>
        \A r \in 1..Len(semanticRules) : \A p \in RulePairs(semanticRules[r]) :
            LET s == ClaimedSimilarity(analysed.entities[p[1]], analysed.entities[p[2]])
            IN Related(semanticRules[r], p)
                <=> (s > 5000
                     /\ ScoreTimes(semanticRules[r].confidenceScore, s) >= ThresholdInForce)

\* a person and a place with two of three attributes in common are related at
\* 0.6 * 2/3 under minConfidence 0.1
C22_Witness ==
    /\ Discovered
    /\ analysed.parameters.minConfidence.value = 1000
    /\ \E p \in RulePairs(semanticRules[1]) :
          /\ ClaimedSimilarity(analysed.entities[p[1]], analysed.entities[p[2]]) = 6666
          /\ Related(semanticRules[1], p)
\* the three steps of analyzeText, in order
AnalysisSteps == <<"detectPatterns", "extractEntities", "discoverRelationships">>

\* the step of analyzeText that fails on this text with these parameters, 0 if
\* none does
FailingStep(text, parameters) ==
    IF DetectPatternsThrows(text.patterns, parameters) THEN 1
    ELSE IF discoverRelationships(extractEntities(text), parameters.minConfidence).threw
    THEN 3 ELSE 0

\* C25: analyzeText runs pattern detection, entity extraction and relationship
\* discovery in that order, the last on the entities just extracted.  When a
\* step fails no later step runs, the call throws one error whose message
\* starts with "Analysis failed" and returns no result; when none fails it
\* returns the patterns, the entities and the relationships of the three steps.
C25_OrderedStepsOrSingleError ==
    analysed.op = "analyzeText" =>
        LET failing == FailingStep(analysed.text, analysed.parameters)
            entities == extractEntities(analysed.text)
        IN IF failing = 0
           THEN /\ ~analysed.threw
                /\ analysed.steps = AnalysisSteps
                /\ analysed.result.entities = entities
                /\ analysed.result.relationships =
                      discoverRelationships(entities,
                                            analysed.parameters.minConfidence).relationships
                /\ analysed.result.patterns =
                      detectPatterns(analysed.text.patterns,
                                     analysed.parameters.minConfidence,
                                     analysed.parameters.includeSemanticPatterns)
           ELSE /\ analysed.threw
                /\ analysed.steps = SubSeq(AnalysisSteps, 1, failing)
                /\ Len(analysed.message) > 0
                /\ analysed.message[1] = "Analysis failed: "
                /\ analysed.result = NoResult

\* relationship discovery failed after patterns and entities had been found
C25_Witness ==
    /\ analysed.op = "analyzeText"
    /\ analysed.threw
    /\ analysed.steps = AnalysisSteps
    /\ Len(extractEntities(analysed.text)) = 2
    /\ analysed.parameters.includeSemanticPatterns
    /\ analysed.text.patterns.themes["rahma"] # <<>>
(***************************************************************************)
(* Claims about ReasoningEngine (ReasoningSpec)                            *)
(***************************************************************************)
NotFound(error) == error \in {"Source or target item not found", "Concept item not found"}

KnownIds == {"concept-1", "concept-2", "concept-3", "concept-4", "concept-5"}

\* the ids on which the last call depends for being found
AskedIds ==
    IF reasoned.op = "discoverRelations" THEN {reasoned.sourceId, reasoned.targetId}
    ELSE {reasoned.sourceId}

DiscoveredRelations ==
    /\ reasoned.op = "discoverRelations"
    /\ {reasoned.sourceId, reasoned.targetId} \subseteq KnownIds

\* the similar_to relation the direct step is said to make of these evidences
SimilarTo(confidence, evidence) ==
    <<[sourceId |-> reasoned.sourceId, targetId |-> reasoned.targetId,
       type |-> "similar_to", confidence |-> confidence, evidence |-> evidence]>>

\* C24: for every pair of knowledge items the direct attribute-matching step
\* of discoverRelations makes at most one similar_to relation: 0.6 with
\* type_matching evidence when only the types match, 0.8 with type_matching
\* then category_matching evidence when both match, 0.7 with category_matching
\* evidence when only the categories match, none otherwise; no confidence
\* exceeds 1.0.
C24_DirectSimilarity ==
    DiscoveredRelations =>
        LET a == GetItem(reasoned.sourceId)
            b == GetItem(reasoned.targetId)
        IN /\ reasoned.direct =
                 IF a.type = b.type /\ a.category # b.category
                 THEN SimilarTo(6000, <<"type_matching">>)
                 ELSE IF a.type = b.type /\ a.category = b.category
                 THEN SimilarTo(8000, <<"type_matching", "category_matching">>)
                 ELSE IF a.category = b.category
                 THEN SimilarTo(7000, <<"category_matching">>)
                 ELSE <<>>
           /\ \A i \in 1..Len(reasoned.direct) : reasoned.direct[i].confidence <= 10000
           /\ \A i \in 1..Len(reasoned.relations) : reasoned.relations[i].confidence <= 10000

\* two items of the same type and category: the type-match relation has been
\* raised to 0.8
C24_Witness ==
    /\ DiscoveredRelations
    /\ reasoned.sourceId = "concept-1"
    /\ reasoned.targetId = "concept-2"
    /\ Len(reasoned.direct) = 1
    /\ reasoned.direct[1].confidence = 8000
    /\ Len(reasoned.direct[1].evidence) = 2
(***************************************************************************)
(* Claims about the concept store across calls (ExploreSpec)               *)
(***************************************************************************)
\* C28: one exploreConcept call adds at most one concept to the store, and
\* adds one, of the requested name, exactly when it does not fail, the depth
\* it explores is at least 1 and no stored concept name equals or contains the
\* requested name; so the recursion into related concepts materializes
\* nothing.  No call removes or changes a stored concept.
C28_AtMostOneConceptAdded ==
    explored.id # 0 =>
        /\ Len(conceptsData) <= Len(explored.before) + 1
        /\ SubSeq(conceptsData, 1, Len(explored.before)) = explored.before
        /\ Len(conceptsData) = Len(explored.before) + 1
              <=> /\ ~explored.threw
                  /\ explored.maxDepth.value >= 1
                  /\ NoStoredNameMatches(explored.before, explored.concept)
        /\ Len(conceptsData) = Len(explored.before) + 1
              => conceptsData[Len(conceptsData)].name = explored.concept

\* a call on a stored name went into the related concepts, among them a
\* placeholder that an earlier call had stored, and added nothing
C28_Witness ==
    /\ explored.id = 2
    /\ Len(explored.before) = 4
    /\ Len(conceptsData) = 4
    /\ explored.concept = taqwa
    /\ explored.deepest >= 2
    /\ Len(explored.expanded) >= 3

\* two calls one after the other with the same name and maxDepth have returned
Repeated ==
    /\ explored.id # 0
    /\ explored.previous.id # 0
    /\ explored.previous.concept = explored.concept
    /\ explored.previous.option = explored.option
    /\ ~explored.threw
    /\ ~explored.previous.threw

\* the ids and references of a result list
IdsAndReferences(results) ==
    [i \in 1..Len(results) |-> [id |-> results[i].id, references |-> results[i].references]]

\* C29 as stated: the second of two such calls returns the ids and references
\* the first returned, also for a name that the first call materialized.
C29_RepeatedCallSameResults ==
    Repeated =>
        IdsAndReferences(explored.results) = IdsAndReferences(explored.previous.results)

\* C29: the second of two consecutive exploreConcept calls with the same name
\* and maxDepth returns the same sequence of concept ids with the same
\* references as the first, when a stored concept name equalled or contained
\* the name before the first call (or the depth explored is below 1, and both
\* lists are empty).
C29_RepeatedCallSameResultsWhenStored ==
    (/\ Repeated
     /\ \/ explored.maxDepth.value < 1
        \/ ~NoStoredNameMatches(explored.previous.before, explored.concept))
        => IdsAndReferences(explored.results) = IdsAndReferences(explored.previous.results)

\* a stored name explored twice, three levels deep
C29_Witness ==
    /\ Repeated
    /\ explored.concept = taqwa
    /\ explored.option = Number(3)
    /\ Len(explored.results) >= 3
    /\ explored.results = explored.previous.results
(***************************************************************************)
(* Claims about the shape of the store (Spec)                              *)
(***************************************************************************)
\* the sum of the values of a function
RECURSIVE SumOf(_)
SumOf(f) ==
    IF DOMAIN f = {} THEN 0
    ELSE LET x == CHOOSE x \in DOMAIN f : TRUE
         IN f[x] + SumOf([y \in DOMAIN f \ {x} |-> f[y]])

\* C30: in every state reached through createKnowledgeNode, createRelationship
\* and verifyKnowledgeNode each edge of a stored node points to the id of a
\* stored node, every node created is still stored (written has one entry for
\* each createKnowledgeNode call), and getStatistics reports a nodeCount equal
\* to the number of nodes created and relationshipTypeCounts whose sum is the
\* number of directed edges stored.
C30_StoreShape ==
    LET statistics == getStatistics(nodes, sources)
    IN /\ \A id \in 1..Len(nodes) : \A k \in 1..Len(nodes[id].relationships) :
              nodes[id].relationships[k].key \in 1..Len(nodes)
       /\ Len(nodes) = Len(written)
       /\ statistics.nodeCount = Len(written)
       /\ SumOf(statistics.relationshipTypeCounts)
              = Sum([id \in 1..Len(nodes) |-> Len(nodes[id].relationships)])

\* two nodes linked both ways: two directed edges
C30_Witness ==
    /\ Len(nodes) = 2
    /\ Len(nodes[1].relationships) = 1
    /\ Len(nodes[2].relationships) = 1
    /\ nodes[1].relationships[1].key = 2
    /\ nodes[2].relationships[1].key = 1
    /\ SumOf(getStatistics(nodes, sources).relationshipTypeCounts) = 2
(***************************************************************************)
(* Claims about overlapping verifyKnowledgeNode calls (ConcurrentSpec)     *)
(***************************************************************************)
\* no call is waiting
Quiescent == \A c \in 1..Len(inflight) : inflight[c].done

\* the calls that found the node
Finished == {c \in 1..Len(inflight) : inflight[c].done /\ ~inflight[c].threw}

\* the node of the store as it was added: no history, confidence 1.0
Unverified == [nodes[1] EXCEPT !.verificationResults = <<>>, !.confidence = Scale]

\* the node after k verifyKnowledgeNode calls made one after the other
RECURSIVE Sequentially(_, _)
Sequentially(n, k) ==
    IF k = 0 THEN n
    ELSE Sequentially(VerifyLoop([node |-> n, results |-> <<>>], 1).node, k - 1)

CountOf(method, k) ==
    Cardinality({i \in 1..k : nodes[1].verificationResults[i].method = method})

====
